---- MODULE Spec2Model ----
(***************************************************************************)
(* Verification model of the ndisapi-go packet-interception engines, of    *)
(* the fast-I/O drain, of the static filter table and of the rule          *)
(* conversion.                                                             *)
(*                                                                         *)
(* Spec         : the single-adapter engines (blocking, pipelined,         *)
(*                fast-I/O) driven by a thread that starts and stops them  *)
(* SpecDispatch : the same engines started once, with traffic of both      *)
(*                directions and classifiers returning every verdict       *)
(* SpecStall    : the pipelined engine, restarted, with a write-to-adapter *)
(*                stage that may stop taking blocks                        *)
(* SpecFastIO   : the fast-I/O engine started once and the driver writing  *)
(*                to its sections                                          *)
(* SpecFilters  : operations on the static filter table, each accepted or  *)
(*                rejected by the driver                                   *)
(* SpecRule     : one rule converted to the driver record and back         *)
(* SpecMulti    : the multi-adapter engine with its adapter-change monitor *)
(*                and a thread that starts, filters, unfilters and closes  *)
(* SpecMultiFlow: the multi-adapter engine started once, its four stages   *)
(*                passing blocks, classifiers returning every verdict      *)
(* SpecMultiOverride : the same, classifiers also returning another        *)
(*                adapter for the envelope                                 *)
(* SpecIndex    : the single-adapter engines started with an adapter index *)
(*                inside or outside the adapter list                       *)
(* SpecReconfigure : every engine started once, Reconfigure called in any  *)
(*                state                                                    *)
(* SpecApi      : the driver handle: opening the device, the two read      *)
(*                calls, construction of the static filter table           *)
(* SpecThreads  : one static filter table used by several threads          *)
(* SpecFastGrow : the fast-I/O engine draining the first section while     *)
(*                the driver keeps writing to it                           *)
(* SpecMultiSend: the multi-adapter engine with send calls that may take   *)
(*                fewer envelopes than submitted                           *)
(* SpecEventError : the engines that wait on the packet event, with a wait *)
(*                or a reset that may fail                                 *)
(* SpecBurst    : the blocking engine with more traffic than one           *)
(*                read-packets call returns                                *)
(* SpecTable    : the static filter table with removal by predicate and    *)
(*                the whole table stored to and loaded from the driver     *)
(***************************************************************************)
EXTENDS Integers, Sequences, FiniteSets, TLC

(***************************************************************************)
(* Program constants                                                       *)
(***************************************************************************)
PACKET_FLAG_ON_SEND == 1
PACKET_FLAG_ON_RECEIVE == 2

MSTCP_FLAG_SENT_TUNNEL == 1
MSTCP_FLAG_RECV_TUNNEL == 2

FilterActionPass == 0
FilterActionDrop == 1
FilterActionRedirect == 2

PacketDirectionIn == 0
PacketDirectionOut == 1
PacketDirectionBoth == 2

FILTER_PACKET_PASS == 1
FILTER_PACKET_DROP == 2
FILTER_PACKET_REDIRECT == 3

DATA_LINK_LAYER_VALID == 1
NETWORK_LAYER_VALID == 2
TRANSPORT_LAYER_VALID == 4

ETH_802_3 == 1
ETH_802_3_SRC_ADDRESS == 1
ETH_802_3_DEST_ADDRESS == 2
ETH_802_3_PROTOCOL == 4

IPPROTO_ICMP == 1
IPPROTO_TCP == 6
IPPROTO_UDP == 17

IPV4 == 1
IP_SUBNET_V4_TYPE == 1
IP_V4_FILTER_SRC_ADDRESS == 1
IP_V4_FILTER_DEST_ADDRESS == 2
IP_V4_FILTER_PROTOCOL == 4

TCPUDP == 1
ICMP == 2
TCPUDP_SRC_PORT == 1
TCPUDP_DEST_PORT == 2

FilterStateStopped == 0
FilterStateStarting == 1
FilterStateRunning == 2
FilterStateStopping == 3

MaximumBlockNum == 10
MaximumPacketBlock == 510
FastIOMaximumPacketBlock == 2048 * 3
\* sections FastIOPacketFilter.initFilter registers
NumSections == 4
UnsortedMaximumBlockNum == 16

(***************************************************************************)
(* Bounds of the model                                                     *)
(***************************************************************************)
\* envelopes the driver delivers in one behaviour of Spec
MaxPkts == 2
\* envelopes one read-packets call returns at most (510 in the program)
MaxBatch == 2
\* StartFilter calls that spawn workers in one behaviour
MaxStarts == 2
\* engine calls the controlling thread makes in one behaviour
MaxCalls == 4
\* envelopes the driver delivers in one behaviour of SpecDispatch
DispatchPkts == 1
\* envelopes the driver delivers in one behaviour of SpecFastIO
FastPkts == 2
\* envelopes the driver delivers in one behaviour of SpecFastGrow
GrowPkts == 3
\* envelopes the driver delivers in one behaviour of SpecBurst
BurstPkts == 3
\* rules the mirror and the driver's table hold at most in SpecFilters
MaxTable == 3
\* adapters of the machine
NumAdapters == 2
\* calls the controlling thread makes on the multi-adapter engine
MultiCalls == 3
\* buffers of an unsorted block (512 in the program)
UnsortedBlock == 2
\* threads that mutate the static filter table concurrently
NumThreads == 2

Gens == 1..MaxStarts
Stages == {"read", "process", "mstcp", "adapter"}
DeviceFlagValues == {PACKET_FLAG_ON_SEND, PACKET_FLAG_ON_RECEIVE}
Verdicts == {FilterActionPass, FilterActionDrop, FilterActionRedirect}
NoBlock == [none |-> TRUE]
NoCall == [op |-> "none", err |-> FALSE]

VARIABLES
    engine,        \* which engine this behaviour exercises
    filterState,   \* f.filterState
    mode,          \* NetworkAdapter.CurrentMode.Flags
    upc,           \* position of the thread that calls StartFilter / StopFilter
    lastCall,      \* last engine call that returned, with its result
    ncalls,        \* engine calls made so far
    starts,        \* StartFilter calls that spawned workers so far
    startBudget,   \* StartFilter calls that may spawn workers
    pktBudget,     \* envelopes the driver may deliver
    flagChoice,    \* direction flags the driver may deliver
    verdictChoice, \* verdicts the classifiers may return
    drvQueue,      \* the driver's packet queue of the adapter
    arrived,       \* envelopes delivered by the driver so far
    packetEvent,   \* the adapter's manual-reset packet event
    readLog,       \* envelopes in the order read-packets returned them
    inLog,         \* ids in the order handed to filterIncomingPacket
    outLog,        \* ids in the order handed to filterOutgoingPacket
    dispatched,    \* direction flag, verdict and queue of every classification
    sentAdapter,   \* ids passed to SendPacketsToAdapter
    sentMstcp,     \* ids passed to SendPacketsToMstcp
    chans,         \* the four channels of QueuedPacketFilter
    wpc,           \* position of each stage worker of each start
    held,          \* PacketBlock held by packetRead of each start
    ctxDone,       \* whether the context of a start has been cancelled
    waStalled,     \* the write-to-adapter stage has stopped taking blocks
    stalledReads,  \* successful reads since the write-to-adapter stage stalled
    spc,           \* position of filterWorkingThread (blocking, fast-I/O)
    sctxDone,      \* context of the blocking engine cancelled
    sect,          \* the fast-I/O sections shared with the driver
    kst,           \* driver side, per section: a write period is open
    kpend,         \* driver side, per section: the envelope still being copied
    kseq,          \* per section: envelopes published since the last reset
    packetBuffer,  \* FastIOPacketFilter.packetBuffer
    dsec,          \* the section the drain is at
    dn,            \* currentPacketsSuccess
    dword,         \* the packed word the drain loaded for the section
    dtotal,        \* fastIOPacketsSuccess
    dquiet,        \* no write was begun since the drain loaded the count
    lastDrain,     \* what the last completed section drain saw and copied
    Filters,       \* StaticFilters.Filters, the user-space mirror
    drvTable,      \* the driver's static filter table
    tblCall,       \* last table operation, whether the driver was asked, its answer, the result
    rule,          \* the rule a conversion starts from
    rec,           \* the driver record toStaticFilter made of it
    back,          \* the rule fromStaticFilter made of the record
    adapter,       \* f.adapter, the index StartFilter was given
    idxChoice,     \* adapter indexes the controlling thread may pass
    handleChoice,  \* override adapters the classifiers may return
    sendChoice,    \* by how many envelopes a send may fall short of its request
    networkInterfaces, \* f.networkInterfaces, the adapter facades by handle
    hooks,         \* which of the two classifiers are non-nil (multi-adapter)
    mtx,           \* the multi-adapter engine's mutex is locked
    filterAdapterList, \* f.filterAdapterList
    marg,          \* the name a filter / unfilter call was given
    adapterEvent,  \* the adapter-list-change event
    monpc,         \* position of monitorAdapterChanges
    adapterMode,   \* per adapter: mode flags and whether the packet event is bound
    mchans,        \* the four channels of the multi-adapter engine
    mwpc,          \* position of each stage worker of the multi-adapter engine
    mheld,         \* UnsortedPacketBlock held by packetRead
    mctxDone,      \* the context of the multi-adapter workers is cancelled
    injected,      \* envelopes handed to the unsorted send calls
    processed,     \* blocks the process stage has forwarded, with the verdicts
    api,           \* the NdisApi handle and what opening the device returned
    thr            \* threads mutating the static filter table concurrently

envVars == <<pktBudget, flagChoice, verdictChoice, drvQueue, arrived, packetEvent>>
logVars == <<readLog, inLog, outLog, dispatched, sentAdapter, sentMstcp>>
callVars == <<upc, lastCall, ncalls, starts, startBudget>>
queuedVars == <<chans, wpc, held, ctxDone, waStalled, stalledReads>>
workerVars == <<spc, sctxDone>>
kernelVars == <<kst, kpend, kseq>>
drainVars == <<packetBuffer, dsec, dn, dword, dtotal, dquiet, lastDrain>>
fastVars == <<sect, kernelVars, drainVars>>
tableVars == <<Filters, drvTable, tblCall>>
ruleVars == <<rule, rec, back>>
multiVars == <<hooks, mtx, filterAdapterList, marg, adapterEvent, monpc,
               adapterMode, mchans, mwpc, mheld, mctxDone, injected, processed>>
extVars == <<idxChoice, handleChoice, sendChoice, networkInterfaces, multiVars,
            api, thr>>
engineVars == <<filterState, mode, callVars, envVars, logVars, queuedVars,
                workerVars, fastVars, adapter, extVars>>
vars == <<engine, engineVars, tableVars, ruleVars>>

\* what StartFilter of a single-adapter engine leaves alone besides its own state
fixed == <<engine, tableVars, ruleVars, extVars>>

\* what the engines and the driver's packet path leave alone
scope == <<fixed, adapter>>

\* what the actions of one engine leave alone
notQueued == <<scope, workerVars, fastVars>>
notWorker == <<scope, queuedVars, fastVars>>
notFast == <<scope, queuedVars, sctxDone>>

(***************************************************************************)
(* Helpers                                                                 *)
(***************************************************************************)
Min(a, b) == IF a < b THEN a ELSE b

Prefix(s, n) == SubSeq(s, 1, n)
Drop(s, n) == SubSeq(s, n + 1, Len(s))

IsPrefixOf(s, t) == Len(s) <= Len(t) /\ Prefix(t, Len(s)) = s

Ids(s) == [i \in 1..Len(s) |-> s[i].id]
IdSet(s) == {s[i].id : i \in 1..Len(s)}

WithFlag(s, f) == SelectSeq(s, LAMBDA e : e.flags = f)
WithoutFlag(s, f) == SelectSeq(s, LAMBDA e : e.flags # f)

\* a call of the controlling thread returns
Returned(op, e) == lastCall' = [op |-> op, err |-> e]

\* f.networkInterfaces[f.adapter] does not panic
IndexInRange(idx) == idx >= 0 /\ idx < Len(networkInterfaces)

(***************************************************************************)
(* PacketBlock                                                             *)
(***************************************************************************)
NewPacketBlock == [read |-> <<>>, wa |-> <<>>, wm |-> <<>>]

NewBlocks(n) == [i \in 1..n |-> NewPacketBlock]

(***************************************************************************)
(* The driver side of read-packets: the ioctl fails when the adapter queue *)
(* is empty and otherwise returns the head of the queue, at most MaxBatch  *)
(* envelopes. NdisApi.ReadPackets returns err != nil.                      *)
(***************************************************************************)
ReadPackets(q) ==
    LET n == Min(Len(q), MaxBatch)
    IN [ret |-> (n = 0), packets |-> Prefix(q, n), rest |-> Drop(q, n)]

(***************************************************************************)
(* Dispatch after classification, one definition per engine               *)
(***************************************************************************)
DispatchQueued(flags, action) ==
    IF action = FilterActionPass
    THEN IF flags = PACKET_FLAG_ON_SEND THEN "adapter" ELSE "mstcp"
    ELSE IF action = FilterActionRedirect
         THEN IF flags = PACKET_FLAG_ON_RECEIVE THEN "adapter" ELSE "mstcp"
         ELSE "none"

DispatchSimple(flags, action) ==
    IF action = FilterActionPass
    THEN IF flags = PACKET_FLAG_ON_SEND THEN "adapter" ELSE "mstcp"
    ELSE IF action = FilterActionRedirect
         THEN IF flags = PACKET_FLAG_ON_RECEIVE THEN "adapter" ELSE "mstcp"
         ELSE "none"

\* the redirect branch routes like the pass branch
DispatchRedirectAsPass(flags, action) ==
    IF action = FilterActionPass \/ action = FilterActionRedirect
    THEN IF flags = PACKET_FLAG_ON_SEND THEN "adapter" ELSE "mstcp"
    ELSE "none"

DispatchFastIO(flags, action) ==
    IF action = FilterActionPass
    THEN IF flags = PACKET_FLAG_ON_SEND THEN "adapter" ELSE "mstcp"
    ELSE IF action = FilterActionRedirect
         THEN IF flags = PACKET_FLAG_ON_RECEIVE THEN "adapter" ELSE "mstcp"
         ELSE "none"

\* the verdict sequences a classifier pair may return for n envelopes
VerdictSeqs(n) == [1..n -> verdictChoice]

\* the dispatch of the engine eng
DispatchOf(eng, flags, action) ==
    CASE eng = "queued" -> DispatchQueued(flags, action)
      [] eng = "simple" -> DispatchSimple(flags, action)
      [] OTHER -> DispatchFastIO(flags, action)

\* envelopes of a batch that the loop over the batch puts on queue q
Placed(batch, acts, q, eng) ==
    LET idx == {i \in 1..Len(batch) : DispatchOf(eng, batch[i].flags, acts[i]) = q}
        RECURSIVE Build(_)
        Build(i) ==
            IF i > Len(batch) THEN <<>>
            ELSE IF i \in idx THEN <<batch[i]>> \o Build(i + 1)
                 ELSE Build(i + 1)
    IN Build(1)

\* the classifier called is chosen by DeviceFlags == PACKET_FLAG_ON_SEND;
\* the loop hands the envelopes of the batch to the classifiers in index order
Classified(batch, acts, eng) ==
    /\ dispatched' = dispatched \cup
          {[flags |-> batch[i].flags, action |-> acts[i],
            queue |-> DispatchOf(eng, batch[i].flags, acts[i])] : i \in 1..Len(batch)}
    /\ outLog' = outLog \o Ids(WithFlag(batch, PACKET_FLAG_ON_SEND))
    /\ inLog' = inLog \o Ids(WithoutFlag(batch, PACKET_FLAG_ON_SEND))

(***************************************************************************)
(* Environment: the driver queues an envelope for the adapter and signals  *)
(* the packet event; it intercepts only while a tunnel mode is set.        *)
(***************************************************************************)
Arrive ==
    /\ engine \in {"queued", "simple"}
    /\ arrived < pktBudget
    /\ mode # 0
    /\ \E f \in flagChoice :
          drvQueue' = Append(drvQueue, [id |-> arrived + 1, flags |-> f])
    /\ arrived' = arrived + 1
    /\ packetEvent' = TRUE
    /\ UNCHANGED <<scope, filterState, mode, callVars, pktBudget, flagChoice,
                   verdictChoice, logVars, queuedVars, workerVars, fastVars>>

\* NetworkAdapter.Close: SignalEvent, mode 0, FlushAdapterPacketQueue
AdapterClose ==
    /\ packetEvent' = TRUE
    /\ mode' = 0
    /\ drvQueue' = <<>>

(***************************************************************************)
(* QueuedPacketFilter                                                      *)
(***************************************************************************)
\* initFilter, first part: MaximumBlockNum new blocks go to packetReadChan
InitFilterBlocks(c) == [c EXCEPT !["read"] = c["read"] \o NewBlocks(MaximumBlockNum)]

\* initFilter, SetPacketEvent failed: packetReadChan is emptied
InitFilterUndo(c) == [c EXCEPT !["read"] = <<>>]

\* head of a stage loop: select on ctx.Done(), then the filterState test
LoopHead(g) ==
    IF ctxDone[g] \/ filterState # FilterStateRunning THEN "exit" ELSE "recv"

\* StartFilter: the state test, f.filterState = FilterStateStarting, initFilter
QueuedStartFilter ==
    /\ engine = "queued"
    /\ upc = "idle"
    /\ ncalls < MaxCalls
    /\ ncalls' = ncalls + 1
    /\ IF filterState # FilterStateStopped
       THEN /\ Returned("start", TRUE)
            /\ UNCHANGED <<filterState, mode, upc, chans, adapter>>
       ELSE /\ starts < startBudget
            /\ Len(chans["read"]) + MaximumBlockNum <= MaximumPacketBlock
            /\ \E idx \in idxChoice, evOk \in BOOLEAN :
                 /\ adapter' = idx
                 /\ IF ~IndexInRange(idx)
                    THEN /\ filterState' = FilterStateStarting
                         /\ upc' = "panic"
                         /\ UNCHANGED <<mode, chans, lastCall>>
                    ELSE IF evOk
                    THEN /\ filterState' = FilterStateStarting
                         /\ chans' = InitFilterBlocks(chans)
                         /\ mode' = MSTCP_FLAG_SENT_TUNNEL + MSTCP_FLAG_RECV_TUNNEL
                         /\ upc' = "starting"
                         /\ UNCHANGED lastCall
                    ELSE /\ filterState' = FilterStateStopped
                         /\ chans' = InitFilterUndo(InitFilterBlocks(chans))
                         /\ Returned("start", TRUE)
                         /\ UNCHANGED <<mode, upc>>
    /\ UNCHANGED <<starts, startBudget, envVars, logVars, wpc, held, ctxDone,
                   waStalled, stalledReads, fixed, workerVars, fastVars>>

\* StartFilter: the four go statements, f.filterState = FilterStateRunning,
\* return nil. A stage worker that passes the head of its loop before the
\* store of Running reads Starting and returns: early is the set of those.
QueuedStartReturn ==
    /\ engine = "queued"
    /\ upc = "starting"
    /\ starts' = starts + 1
    /\ \E early \in SUBSET Stages :
          wpc' = [wpc EXCEPT ![starts + 1] =
                     [st \in Stages |-> IF st \in early THEN "exit" ELSE "recv"]]
    /\ filterState' = FilterStateRunning
    /\ upc' = "idle"
    /\ Returned("start", FALSE)
    /\ UNCHANGED <<mode, ncalls, startBudget, envVars, logVars, chans, held,
                   ctxDone, waStalled, stalledReads, notQueued>>

\* StopFilter: the state test and f.filterState = FilterStateStopping
QueuedStopFilter ==
    /\ engine = "queued"
    /\ upc = "idle"
    /\ ncalls < MaxCalls
    /\ ncalls' = ncalls + 1
    /\ IF filterState # FilterStateRunning
       THEN /\ Returned("stop", TRUE)
            /\ UNCHANGED <<filterState, upc>>
       ELSE /\ filterState' = FilterStateStopping
            /\ upc' = "stopping"
            /\ UNCHANGED lastCall
    /\ UNCHANGED <<mode, starts, startBudget, envVars, logVars, queuedVars, notQueued>>

\* StopFilter: cancelFunc(); f.filterState = FilterStateStopped; return nil
QueuedStopReturn ==
    /\ engine = "queued"
    /\ upc = "stopping"
    /\ ctxDone' = [ctxDone EXCEPT ![starts] = TRUE]
    /\ filterState' = FilterStateStopped
    /\ upc' = "idle"
    /\ Returned("stop", FALSE)
    /\ UNCHANGED <<mode, ncalls, starts, startBudget, envVars, logVars, chans, wpc,
                   held, waStalled, stalledReads, notQueued>>

\* packetRead: the condition of for q.filterState == FilterStateRunning
ReadLoopHead == IF filterState = FilterStateRunning THEN "wait" ELSE "send"

\* packetRead: packetBlock := <-q.packetReadChan, then the inner loop condition
ReadRecv(g) ==
    /\ engine = "queued"
    /\ wpc[g]["read"] = "recv"
    /\ chans["read"] # <<>>
    /\ held' = [held EXCEPT ![g] = Head(chans["read"])]
    /\ chans' = [chans EXCEPT !["read"] = Tail(@)]
    /\ wpc' = [wpc EXCEPT ![g]["read"] = ReadLoopHead]
    /\ UNCHANGED <<filterState, mode, callVars, envVars, logVars, ctxDone,
                   waStalled, stalledReads, notQueued>>

\* packetRead: WaitEvent(INFINITE)
ReadWaitEvent(g) ==
    /\ engine = "queued"
    /\ wpc[g]["read"] = "wait"
    /\ packetEvent
    /\ wpc' = [wpc EXCEPT ![g]["read"] = "rd"]
    /\ UNCHANGED <<filterState, mode, callVars, envVars, logVars, chans, held,
                   ctxDone, waStalled, stalledReads, notQueued>>

\* packetRead: ResetEvent(); if !q.ReadPackets(readRequest) { break }, else the
\* loop condition again
ReadReadPackets(g) ==
    /\ engine = "queued"
    /\ wpc[g]["read"] = "rd"
    /\ packetEvent' = FALSE
    /\ LET r == ReadPackets(drvQueue)
       IN IF r.ret
          THEN /\ wpc' = [wpc EXCEPT ![g]["read"] = ReadLoopHead]
               /\ UNCHANGED <<drvQueue, readLog, held, stalledReads>>
          ELSE /\ wpc' = [wpc EXCEPT ![g]["read"] = "send"]
               /\ drvQueue' = r.rest
               /\ readLog' = readLog \o r.packets
               /\ held' = [held EXCEPT ![g].read = r.packets]
               /\ stalledReads' = IF waStalled THEN stalledReads + 1
                                  ELSE stalledReads
    /\ UNCHANGED <<filterState, mode, callVars, pktBudget, flagChoice,
                   verdictChoice, arrived, inLog, outLog, dispatched, sentAdapter,
                   sentMstcp, chans, ctxDone, waStalled, notQueued>>

\* packetRead: q.packetProcessChan <- packetBlock, then the head of the loop
ReadForward(g) ==
    /\ engine = "queued"
    /\ wpc[g]["read"] = "send"
    /\ Len(chans["process"]) < MaximumPacketBlock
    /\ chans' = [chans EXCEPT !["process"] = Append(@, held[g])]
    /\ held' = [held EXCEPT ![g] = NoBlock]
    /\ wpc' = [wpc EXCEPT ![g]["read"] = LoopHead(g)]
    /\ UNCHANGED <<filterState, mode, callVars, envVars, logVars, ctxDone,
                   waStalled, stalledReads, notQueued>>

\* packetProcess: receive a block, classify and place every envelope of it,
\* PacketsSuccess = 0, q.packetWriteMstcpChan <- packetBlock
PacketProcess(g) ==
    /\ engine = "queued"
    /\ wpc[g]["process"] = "recv"
    /\ chans["process"] # <<>>
    /\ Len(chans["mstcp"]) < MaximumPacketBlock
    /\ LET b == Head(chans["process"])
       IN \E acts \in VerdictSeqs(Len(b.read)) :
            /\ Classified(b.read, acts, "queued")
            /\ chans' = [chans EXCEPT
                  !["process"] = Tail(@),
                  !["mstcp"] = Append(@,
                      [read |-> <<>>,
                       wa |-> b.wa \o Placed(b.read, acts, "adapter", "queued"),
                       wm |-> b.wm \o Placed(b.read, acts, "mstcp", "queued")])]
    /\ wpc' = [wpc EXCEPT ![g]["process"] = LoopHead(g)]
    /\ UNCHANGED <<filterState, mode, callVars, envVars, readLog, sentAdapter,
                   sentMstcp, held, ctxDone, waStalled, stalledReads, notQueued>>

\* packetWriteMstcp: receive a block, SendPacketsToMstcp if PacketsNumber > 0,
\* PacketsNumber = 0, q.packetWriteAdapterChan <- packetBlock
PacketWriteMstcp(g) ==
    /\ engine = "queued"
    /\ wpc[g]["mstcp"] = "recv"
    /\ chans["mstcp"] # <<>>
    /\ Len(chans["adapter"]) < MaximumPacketBlock
    /\ LET b == Head(chans["mstcp"])
       IN /\ sentMstcp' = sentMstcp \cup IdSet(b.wm)
          /\ chans' = [chans EXCEPT !["mstcp"] = Tail(@),
                                    !["adapter"] = Append(@, [b EXCEPT !.wm = <<>>])]
    /\ wpc' = [wpc EXCEPT ![g]["mstcp"] = LoopHead(g)]
    /\ UNCHANGED <<filterState, mode, callVars, envVars, readLog, inLog, outLog,
                   dispatched, sentAdapter, held, ctxDone, waStalled, stalledReads,
                   notQueued>>

\* packetWriteAdapter: receive a block, SendPacketsToAdapter if PacketsNumber > 0,
\* PacketsNumber = 0, q.packetReadChan <- packetBlock
PacketWriteAdapter(g) ==
    /\ engine = "queued"
    /\ wpc[g]["adapter"] = "recv"
    /\ chans["adapter"] # <<>>
    /\ ~waStalled
    /\ Len(chans["read"]) < MaximumPacketBlock
    /\ LET b == Head(chans["adapter"])
       IN /\ sentAdapter' = sentAdapter \cup IdSet(b.wa)
          /\ chans' = [chans EXCEPT !["adapter"] = Tail(@),
                                    !["read"] = Append(@, [b EXCEPT !.wa = <<>>])]
    /\ wpc' = [wpc EXCEPT ![g]["adapter"] = LoopHead(g)]
    /\ UNCHANGED <<filterState, mode, callVars, envVars, readLog, inLog, outLog,
                   dispatched, sentMstcp, held, ctxDone, waStalled, stalledReads,
                   notQueued>>

QueuedWorker ==
    \E g \in Gens :
        \/ ReadRecv(g)
        \/ ReadWaitEvent(g)
        \/ ReadReadPackets(g)
        \/ ReadForward(g)
        \/ PacketProcess(g)
        \/ PacketWriteMstcp(g)
        \/ PacketWriteAdapter(g)

\* Close, called on a stopped filter: the adapter facade is closed and the
\* four channels are emptied
QueuedClose ==
    /\ engine = "queued"
    /\ upc = "idle"
    /\ filterState = FilterStateStopped
    /\ ncalls < MaxCalls
    /\ ncalls' = ncalls + 1
    /\ AdapterClose
    /\ chans' = [st \in Stages |-> <<>>]
    /\ Returned("close", FALSE)
    /\ UNCHANGED <<filterState, upc, starts, startBudget, pktBudget, flagChoice,
                   verdictChoice, arrived, logVars, wpc, held, ctxDone, waStalled,
                   stalledReads, notQueued>>

\* the write-to-adapter stage stops taking blocks (its send never returns)
StallAdapterWrite ==
    /\ engine = "queued"
    /\ ~waStalled
    /\ waStalled' = TRUE
    /\ UNCHANGED <<filterState, mode, callVars, envVars, logVars, chans, wpc,
                   held, ctxDone, stalledReads, notQueued>>

QueuedNext ==
    \/ QueuedStartFilter
    \/ QueuedStartReturn
    \/ QueuedStopFilter
    \/ QueuedStopReturn
    \/ QueuedClose
    \/ QueuedWorker

(***************************************************************************)
(* SimplePacketFilter                                                      *)
(***************************************************************************)
\* StartFilter: nothing after initFilter touches filterState, so the call
\* returns with the state Starting whether or not initFilter succeeded
SimpleStartFilter ==
    /\ engine = "simple"
    /\ upc = "idle"
    /\ ncalls < MaxCalls
    /\ ncalls' = ncalls + 1
    /\ IF filterState # FilterStateStopped
       THEN /\ Returned("start", TRUE)
            /\ UNCHANGED <<filterState, mode, upc, starts, spc, sctxDone, adapter>>
       ELSE /\ starts < startBudget
            /\ filterState' = FilterStateStarting
            /\ sctxDone' = FALSE
            /\ \E idx \in idxChoice, evOk \in BOOLEAN :
                 /\ adapter' = idx
                 /\ IF ~IndexInRange(idx)
                    THEN /\ upc' = "panic"
                         /\ UNCHANGED <<mode, starts, spc, lastCall>>
                    ELSE IF evOk
                    THEN /\ mode' = MSTCP_FLAG_SENT_TUNNEL + MSTCP_FLAG_RECV_TUNNEL
                         /\ starts' = starts + 1
                         /\ spc' = "spawned"
                         /\ Returned("start", FALSE)
                         /\ UNCHANGED upc
                    ELSE /\ Returned("start", TRUE)
                         /\ UNCHANGED <<mode, upc, starts, spc>>
    /\ UNCHANGED <<startBudget, envVars, logVars, fixed, queuedVars, fastVars>>

\* StopFilter: the state test, Stopping, cancel(); the caller then waits in
\* wg.Wait()
SimpleStopFilter ==
    /\ engine = "simple"
    /\ upc = "idle"
    /\ ncalls < MaxCalls
    /\ ncalls' = ncalls + 1
    /\ IF filterState # FilterStateRunning
       THEN /\ Returned("stop", TRUE)
            /\ UNCHANGED <<filterState, upc, sctxDone>>
       ELSE /\ filterState' = FilterStateStopping
            /\ sctxDone' = TRUE
            /\ upc' = "stopping"
            /\ UNCHANGED lastCall
    /\ UNCHANGED <<mode, starts, startBudget, envVars, logVars, spc, notWorker>>

\* StopFilter: wg.Wait() returns, Stopped, Close(), return nil
SimpleStopReturn ==
    /\ engine = "simple"
    /\ upc = "stopping"
    /\ spc = "exit"
    /\ filterState' = FilterStateStopped
    /\ AdapterClose
    /\ upc' = "idle"
    /\ Returned("stop", FALSE)
    /\ UNCHANGED <<ncalls, starts, startBudget, pktBudget, flagChoice,
                   verdictChoice, arrived, logVars, workerVars, notWorker>>

\* filterWorkingThread: f.filterState = FilterStateRunning
SimpleWorkerStart ==
    /\ engine = "simple"
    /\ spc = "spawned"
    /\ filterState' = FilterStateRunning
    /\ spc' = "select"
    /\ UNCHANGED <<mode, callVars, envVars, logVars, sctxDone, notWorker>>

\* filterWorkingThread: select on ctx.Done(), then the condition of the loop
\* around WaitEvent; with the state not Running the outer for spins
SimpleSelect ==
    /\ engine = "simple"
    /\ spc = "select"
    /\ sctxDone \/ filterState = FilterStateRunning
    /\ spc' = IF sctxDone THEN "exit" ELSE "wait"
    /\ UNCHANGED <<filterState, mode, callVars, envVars, logVars, sctxDone,
                   notWorker>>

\* filterWorkingThread: WaitEvent(INFINITE), ResetEvent()
SimpleWaitEvent ==
    /\ engine = "simple"
    /\ spc = "wait"
    /\ packetEvent
    /\ packetEvent' = FALSE
    /\ spc' = "rd"
    /\ UNCHANGED <<filterState, mode, callVars, pktBudget, flagChoice,
                   verdictChoice, drvQueue, arrived, logVars, sctxDone, notWorker>>

\* filterWorkingThread with an inner loop that goes back to WaitEvent after
\* the first batch instead of reading again
SimpleReadOnce ==
    /\ engine = "simple"
    /\ spc = "rd"
    /\ LET r == ReadPackets(drvQueue)
       IN IF filterState # FilterStateRunning
          THEN /\ spc' = "select"
               /\ UNCHANGED <<drvQueue, logVars>>
          ELSE IF r.ret
          THEN /\ spc' = "wait"
               /\ UNCHANGED <<drvQueue, logVars>>
          ELSE /\ spc' = "wait"
               /\ drvQueue' = r.rest
               /\ readLog' = readLog \o r.packets
               /\ \E acts \in VerdictSeqs(Len(r.packets)) :
                    /\ Classified(r.packets, acts, "simple")
                    /\ sentAdapter' = sentAdapter \cup
                          IdSet(Placed(r.packets, acts, "adapter", "simple"))
                    /\ sentMstcp' = sentMstcp \cup
                          IdSet(Placed(r.packets, acts, "mstcp", "simple"))
    /\ UNCHANGED <<filterState, mode, callVars, pktBudget, flagChoice,
                   verdictChoice, arrived, packetEvent, sctxDone, notWorker>>

\* filterWorkingThread: one iteration of the inner loop: the state test,
\* ReadPackets, classification and placement of the batch, the two sends,
\* PacketsSuccess = 0
SimpleReadPackets ==
    /\ engine = "simple"
    /\ spc = "rd"
    /\ LET r == ReadPackets(drvQueue)
       IN IF filterState # FilterStateRunning
          THEN /\ spc' = "select"
               /\ UNCHANGED <<drvQueue, logVars>>
          ELSE IF r.ret
          THEN /\ spc' = "wait"
               /\ UNCHANGED <<drvQueue, logVars>>
          ELSE /\ spc' = "rd"
               /\ drvQueue' = r.rest
               /\ readLog' = readLog \o r.packets
               /\ \E acts \in VerdictSeqs(Len(r.packets)) :
                    /\ Classified(r.packets, acts, "simple")
                    /\ sentAdapter' = sentAdapter \cup
                          IdSet(Placed(r.packets, acts, "adapter", "simple"))
                    /\ sentMstcp' = sentMstcp \cup
                          IdSet(Placed(r.packets, acts, "mstcp", "simple"))
    /\ UNCHANGED <<filterState, mode, callVars, pktBudget, flagChoice,
                   verdictChoice, arrived, packetEvent, sctxDone, notWorker>>

\* Close, called on a stopped filter: the adapter facade is closed
SimpleClose ==
    /\ engine = "simple"
    /\ upc = "idle"
    /\ filterState = FilterStateStopped
    /\ ncalls < MaxCalls
    /\ ncalls' = ncalls + 1
    /\ AdapterClose
    /\ Returned("close", FALSE)
    /\ UNCHANGED <<filterState, upc, starts, startBudget, pktBudget, flagChoice,
                   verdictChoice, arrived, logVars, workerVars, notWorker>>

SimpleNext ==
    \/ SimpleStartFilter
    \/ SimpleStopFilter
    \/ SimpleStopReturn
    \/ SimpleClose
    \/ SimpleWorkerStart
    \/ SimpleSelect
    \/ SimpleWaitEvent
    \/ SimpleReadPackets

(***************************************************************************)
(* Fast-I/O section: the packed word and the envelope array                *)
(***************************************************************************)
Word16 == 2 ^ 16
ZeroEnv == [id |-> 0, flags |-> 0]
NoDrain == [sec |-> 0, n |-> 0, word |-> 0, got |-> <<>>, wrote |-> <<>>, quiet |-> FALSE]

GetNumberOfPackets(w) == w % Word16

\* variant: the flag reads as clear whatever the word holds
FlagAlwaysClear(w) == 0

GetWriteInProgressFlag(w) == (w \div Word16) % Word16

Sections == 1..NumSections

\* a section as make([]fastIOStorageType, 4) allocates it
ZeroSection == [word |-> 0, rip |-> 0, slots |-> [i \in 0..(pktBudget - 1) |-> ZeroEnv]]

\* a private buffer as make([]A.IntermediateBuffer, ...) allocates it
ZeroBuffer == [i \in 0..pktBudget |-> ZeroEnv]

\* uint16 subtraction
Sub16(a, b) == (a - b + Word16) % Word16

\* copy(dst[base:], src[lo:hi])
CopyRange(dst, base, src, lo, hi) ==
    [i \in DOMAIN dst |->
        IF i >= base /\ i < base + (hi - lo) /\ (lo + (i - base)) \in DOMAIN src
        THEN src[lo + (i - base)]
        ELSE dst[i]]

\* src[lo:hi] of an array of FastIOMaximumPacketBlock elements is in range
SliceOk(lo, hi) == lo <= hi /\ hi <= FastIOMaximumPacketBlock

BufferSeq(buf, n) == [i \in 1..n |-> buf[i - 1]]

(***************************************************************************)
(* The driver side of a fast-I/O section. A write period is opened by      *)
(* setting write-in-progress; each envelope is counted when its copy       *)
(* begins, so that only the last counted envelope may still be in          *)
(* progress; closing the period completes it, clears write-in-progress and *)
(* signals the packet event. The two halves of the word are changed        *)
(* separately. The driver is a single producer: one write period is open   *)
(* at a time; it opens none in a section whose read-in-progress is set,    *)
(* and it stops writing to the sections of a crashed process.              *)
(***************************************************************************)
Completed(sc, pend) ==
    IF pend.idx \in DOMAIN sc.slots
    THEN [sc EXCEPT !.slots[pend.idx] = pend.e]
    ELSE sc

NoPend == [idx |-> 0 - 1, e |-> ZeroEnv]

\* the drain of section s has loaded the count and not yet stored the word
Draining(s) == s = dsec /\ spc \in {"spin", "recheck", "store0"}

KernelSetWip(s) ==
    /\ engine = "fastio"
    /\ mode # 0
    /\ arrived < pktBudget
    /\ spc # "panic"
    /\ \A t \in Sections : kst[t] = "idle"
    /\ sect[s].rip = 0
    /\ kst' = [kst EXCEPT ![s] = "wip"]
    /\ sect' = [sect EXCEPT ![s].word = GetNumberOfPackets(@) + Word16]
    /\ dquiet' = (dquiet /\ ~Draining(s))
    /\ UNCHANGED <<filterState, mode, callVars, envVars, logVars, workerVars,
                   kpend, kseq, packetBuffer, dsec, dn, dword, dtotal, lastDrain,
                   scope, queuedVars>>

KernelAppend(s) ==
    /\ engine = "fastio"
    /\ arrived < pktBudget
    /\ spc # "panic"
    /\ kst[s] = "wip"
    /\ \E f \in flagChoice :
         LET e == [id |-> arrived + 1, flags |-> f]
             c == GetNumberOfPackets(sect[s].word)
         IN /\ sect' = [sect EXCEPT ![s] =
                           [Completed(@, kpend[s]) EXCEPT !.word = @ + 1]]
            /\ kpend' = [kpend EXCEPT ![s] = [idx |-> c, e |-> e]]
            /\ kseq' = [kseq EXCEPT ![s] = Append(@, e)]
    /\ arrived' = arrived + 1
    /\ dquiet' = (dquiet /\ ~Draining(s))
    /\ UNCHANGED <<filterState, mode, callVars, pktBudget, flagChoice,
                   verdictChoice, drvQueue, packetEvent, logVars, workerVars, kst,
                   packetBuffer, dsec, dn, dword, dtotal, lastDrain, scope, queuedVars>>

KernelEnd(s) ==
    /\ engine = "fastio"
    /\ kst[s] = "wip"
    /\ kst' = [kst EXCEPT ![s] = "idle"]
    /\ sect' = [sect EXCEPT ![s] =
                   [Completed(@, kpend[s]) EXCEPT !.word = GetNumberOfPackets(@)]]
    /\ kpend' = [kpend EXCEPT ![s] = NoPend]
    /\ packetEvent' = TRUE
    /\ UNCHANGED <<filterState, mode, callVars, pktBudget, flagChoice,
                   verdictChoice, drvQueue, arrived, logVars, workerVars, kseq,
                   drainVars, scope, queuedVars>>

Kernel == \E s \in Sections : KernelSetWip(s) \/ KernelAppend(s) \/ KernelEnd(s)

(***************************************************************************)
(* FastIOPacketFilter                                                      *)
(***************************************************************************)
\* StartFilter: like the blocking engine, the call returns with the state
\* Starting whether or not initFilter succeeded. initFilter allocates the
\* private buffer and the sections and registers the sections.
FastStartFilter ==
    /\ engine = "fastio"
    /\ upc = "idle"
    /\ ncalls < MaxCalls
    /\ ncalls' = ncalls + 1
    /\ IF filterState # FilterStateStopped
       THEN /\ Returned("start", TRUE)
            /\ UNCHANGED <<filterState, mode, upc, starts, spc, fastVars, adapter>>
       ELSE /\ starts < startBudget
            /\ filterState' = FilterStateStarting
            /\ \E idx \in idxChoice, initOk \in BOOLEAN :
                 /\ adapter' = idx
                 /\ IF ~IndexInRange(idx)
                    THEN /\ upc' = "panic"
                         /\ packetBuffer' = ZeroBuffer
                         /\ UNCHANGED <<mode, starts, spc, lastCall, sect,
                                        kernelVars, dsec, dn, dword, dtotal,
                                        dquiet, lastDrain>>
                    ELSE IF initOk
                    THEN /\ mode' = MSTCP_FLAG_SENT_TUNNEL + MSTCP_FLAG_RECV_TUNNEL
                         /\ starts' = starts + 1
                         /\ spc' = "spawned"
                         /\ sect' = [s \in Sections |-> ZeroSection]
                         /\ kst' = [s \in Sections |-> "idle"]
                         /\ kpend' = [s \in Sections |-> NoPend]
                         /\ kseq' = [s \in Sections |-> <<>>]
                         /\ packetBuffer' = ZeroBuffer
                         /\ UNCHANGED <<dsec, dn, dword, dtotal, dquiet, lastDrain>>
                         /\ Returned("start", FALSE)
                         /\ UNCHANGED upc
                    ELSE /\ Returned("start", TRUE)
                         /\ UNCHANGED <<mode, upc, starts, spc, fastVars>>
    /\ UNCHANGED <<startBudget, envVars, logVars, fixed, queuedVars, sctxDone>>

\* Close: the state test, Stopping, the adapter facade is closed, cancel();
\* the caller then waits in wg.Wait()
FastClose ==
    /\ engine = "fastio"
    /\ upc = "idle"
    /\ ncalls < MaxCalls
    /\ ncalls' = ncalls + 1
    /\ IF filterState # FilterStateRunning
       THEN /\ Returned("stop", TRUE)
            /\ UNCHANGED <<filterState, upc, mode, drvQueue, packetEvent>>
       ELSE /\ filterState' = FilterStateStopping
            /\ AdapterClose
            /\ upc' = "stopping"
            /\ UNCHANGED lastCall
    /\ UNCHANGED <<starts, startBudget, pktBudget, flagChoice, verdictChoice,
                   arrived, logVars, spc, fastVars, notFast>>

\* Close: wg.Wait() returns, Stopped, return nil
FastCloseReturn ==
    /\ engine = "fastio"
    /\ upc = "stopping"
    /\ spc = "exit"
    /\ filterState' = FilterStateStopped
    /\ upc' = "idle"
    /\ Returned("stop", FALSE)
    /\ UNCHANGED <<mode, ncalls, starts, startBudget, envVars, logVars, spc,
                   fastVars, notFast>>

\* filterWorkingThread: f.filterState = FilterStateRunning
FastWorkerStart ==
    /\ engine = "fastio"
    /\ spc = "spawned"
    /\ filterState' = FilterStateRunning
    /\ spc' = "loop"
    /\ UNCHANGED <<mode, callVars, envVars, logVars, fastVars, notFast>>

\* filterWorkingThread: if f.filterState != FilterStateRunning { return },
\* then the pass over the sections begins
FastLoop ==
    /\ engine = "fastio"
    /\ spc = "loop"
    /\ IF filterState # FilterStateRunning
       THEN spc' = "exit" /\ UNCHANGED dsec
       ELSE spc' = "scan" /\ dsec' = 1
    /\ UNCHANGED <<filterState, mode, callVars, envVars, logVars, sect,
                   kernelVars, packetBuffer, dn, dword, dtotal, dquiet, lastDrain, notFast>>

\* the first section at or after s whose packed word is not 0
NextSection(s) ==
    IF \E t \in s..NumSections : sect[t].word > 0
    THEN CHOOSE t \in s..NumSections :
            sect[t].word > 0 /\ \A u \in s..(t - 1) : sect[u].word = 0
    ELSE NumSections + 1

\* variant: the drain of a section begins without ReadInProgressFlag
FastScanUnmarked ==
    /\ engine = "fastio"
    /\ spc = "scan"
    /\ LET s == NextSection(dsec)
       IN /\ dsec' = s
          /\ spc' = IF s > NumSections THEN "classify" ELSE "load"
    /\ UNCHANGED <<filterState, mode, callVars, envVars, logVars, sect, kernelVars,
                   packetBuffer, dn, dword, dtotal, dquiet, lastDrain, notFast>>

\* drain: sections whose word loads as 0 are skipped; for the first other one
\* ReadInProgressFlag is stored as 1
FastScan ==
    /\ engine = "fastio"
    /\ spc = "scan"
    /\ LET s == NextSection(dsec)
       IN /\ dsec' = s
          /\ IF s > NumSections
             THEN spc' = "classify" /\ UNCHANGED sect
             ELSE spc' = "load" /\ sect' = [sect EXCEPT ![s].rip = 1]
    /\ UNCHANGED <<filterState, mode, callVars, envVars, logVars, kernelVars,
                   packetBuffer, dn, dword, dtotal, dquiet, lastDrain, notFast>>

\* drain: the word is loaded, currentPacketsSuccess is its count, and
\* FastIOPackets[:currentPacketsSuccess-1] is copied to the private buffer;
\* the slice expression panics when it is out of range
FastLoad ==
    /\ engine = "fastio"
    /\ spc = "load"
    /\ LET n == GetNumberOfPackets(sect[dsec].word)
       IN /\ dn' = n /\ dword' = sect[dsec].word
          /\ IF SliceOk(0, Sub16(n, 1))
             THEN /\ packetBuffer' = CopyRange(packetBuffer, dtotal,
                                               sect[dsec].slots, 0, Sub16(n, 1))
                  /\ spc' = "spin"
                  /\ dquiet' = TRUE
             ELSE /\ spc' = "panic"
                  /\ UNCHANGED <<packetBuffer, dquiet>>
    /\ UNCHANGED <<filterState, mode, callVars, envVars, logVars, sect,
                   kernelVars, dsec, dtotal, lastDrain, notFast>>

\* drain: the spin on GetWriteInProgressFlag ends, and
\* FastIOPackets[currentPacketsSuccess-1:currentPacketsSuccess] is copied
FastSpin ==
    /\ engine = "fastio"
    /\ spc = "spin"
    /\ GetWriteInProgressFlag(sect[dsec].word) = 0
    /\ packetBuffer' = CopyRange(packetBuffer, dtotal + dn - 1,
                                 sect[dsec].slots, dn - 1, dn)
    /\ spc' = "recheck"
    /\ UNCHANGED <<filterState, mode, callVars, envVars, logVars, sect,
                   kernelVars, dsec, dn, dword, dtotal, dquiet, lastDrain, notFast>>

\* drain: if currentPacketsSuccess < GetNumberOfPackets(), the count is taken
\* again and the envelope at the new last index is copied
FastRecheck ==
    /\ engine = "fastio"
    /\ spc = "recheck"
    /\ LET c == GetNumberOfPackets(sect[dsec].word)
       IN IF dn < c
          THEN /\ dn' = c
               /\ packetBuffer' = CopyRange(packetBuffer, dtotal + c - 1,
                                            sect[dsec].slots, c - 1, c)
          ELSE UNCHANGED <<dn, packetBuffer>>
    /\ spc' = "store0"
    /\ UNCHANGED <<filterState, mode, callVars, envVars, logVars, sect,
                   kernelVars, dsec, dword, dtotal, dquiet, lastDrain, notFast>>

\* drain: the packed word is stored as 0
FastStoreZero ==
    /\ engine = "fastio"
    /\ spc = "store0"
    /\ sect' = [sect EXCEPT ![dsec].word = 0]
    /\ lastDrain' = [sec |-> dsec, n |-> dn, word |-> dword,
                     got |-> [i \in 1..dn |-> packetBuffer[dtotal + i - 1]],
                     wrote |-> kseq[dsec], quiet |-> dquiet]
    /\ kseq' = [kseq EXCEPT ![dsec] = <<>>]
    /\ dquiet' = FALSE
    /\ spc' = "rip0"
    /\ UNCHANGED <<filterState, mode, callVars, envVars, logVars, kst, kpend,
                   packetBuffer, dsec, dn, dword, dtotal, notFast>>

\* drain: ReadInProgressFlag is stored as 0, fastIOPacketsSuccess grows by
\* currentPacketsSuccess, and the pass goes on with the next section
FastReadDone ==
    /\ engine = "fastio"
    /\ spc = "rip0"
    /\ sect' = [sect EXCEPT ![dsec].rip = 0]
    /\ dtotal' = dtotal + dn
    /\ dsec' = dsec + 1
    /\ spc' = "scan"
    /\ UNCHANGED <<filterState, mode, callVars, envVars, logVars, kernelVars,
                   packetBuffer, dn, dword, dquiet, lastDrain, notFast>>

\* filterWorkingThread: classification and placement of the envelopes of the
\* private buffer, the two unsorted sends, and the test of
\* fastIOPacketsSuccess == 0 that decides whether the worker waits
FastClassify ==
    /\ engine = "fastio"
    /\ spc = "classify"
    /\ LET batch == BufferSeq(packetBuffer, dtotal)
       IN \E acts \in VerdictSeqs(dtotal) :
            /\ Classified(batch, acts, "fastio")
            /\ sentAdapter' = sentAdapter \cup
                  IdSet(Placed(batch, acts, "adapter", "fastio"))
            /\ sentMstcp' = sentMstcp \cup
                  IdSet(Placed(batch, acts, "mstcp", "fastio"))
    /\ spc' = IF dtotal = 0 THEN "wait" ELSE "loop"
    /\ dtotal' = 0
    /\ UNCHANGED <<filterState, mode, callVars, envVars, readLog, sect,
                   kernelVars, packetBuffer, dsec, dn, dword, dquiet, lastDrain, notFast>>

\* filterWorkingThread: WaitEvent(INFINITE), ResetEvent()
FastWaitEvent ==
    /\ engine = "fastio"
    /\ spc = "wait"
    /\ packetEvent
    /\ packetEvent' = FALSE
    /\ spc' = "loop"
    /\ UNCHANGED <<filterState, mode, callVars, pktBudget, flagChoice,
                   verdictChoice, drvQueue, arrived, logVars, fastVars, notFast>>

FastNext ==
    \/ FastStartFilter
    \/ FastClose
    \/ FastCloseReturn
    \/ FastWorkerStart
    \/ FastLoop
    \/ FastScan
    \/ FastLoad
    \/ FastSpin
    \/ FastRecheck
    \/ FastStoreZero
    \/ FastReadDone
    \/ FastClassify
    \/ FastWaitEvent

(***************************************************************************)
(* Rules and driver records                                                *)
(***************************************************************************)
\* a uint32 is kept as its two 16-bit halves
ZeroUint32 == [lo |-> 0, hi |-> 0]

\* binary.LittleEndian.Uint32 of a 4-byte slice
LittleEndianUint32(b) == [lo |-> b[1] + 256 * b[2], hi |-> b[3] + 256 * b[4]]

\* binary.LittleEndian.PutUint32 into a 4-byte slice
LittleEndianPutUint32(v) ==
    <<v.lo % 256, (v.lo \div 256) % 256, v.hi % 256, (v.hi \div 256) % 256>>

\* v & bit # 0, for a single-bit mask
HasBit(v, bit) == (v \div bit) % 2 = 1

\* v | bit, for a single-bit mask
OrBit(v, bit) == IF HasBit(v, bit) THEN v ELSE v + bit

NilBytes == <<>>
\* net.IPNet{}
NoIPNet == [IP |-> NilBytes, Mask |-> NilBytes]
\* [2]uint16{}
NoPorts == <<0, 0>>

\* the zero value of Filter
ZeroFilter ==
    [AdapterHandle |-> 0,
     SourceMacAddress |-> NilBytes,
     DestinationMacAddress |-> NilBytes,
     EthernetType |-> 0,
     SourceAddress |-> NoIPNet,
     DestinationAddress |-> NoIPNet,
     SourcePort |-> NoPorts,
     DestinationPort |-> NoPorts,
     Protocol |-> 0,
     Direction |-> PacketDirectionIn,
     Action |-> FilterActionPass]

ZeroIPv4Address == [AddressType |-> 0, IP |-> ZeroUint32, IPMask |-> ZeroUint32]

\* IPv4AddressFromIP: the address and the mask become little-endian words of
\* a subnet
IPv4AddressFromIP(ipNet) ==
    [AddressType |-> IP_SUBNET_V4_TYPE,
     IP |-> LittleEndianUint32(ipNet.IP),
     IPMask |-> LittleEndianUint32(ipNet.Mask)]

\* IPv4AddressToIPNet, for the address types the conversion produces
IPv4AddressToIPNet(addr) ==
    IF addr.AddressType = IP_SUBNET_V4_TYPE
    THEN [IP |-> LittleEndianPutUint32(addr.IP),
          Mask |-> LittleEndianPutUint32(addr.IPMask)]
    ELSE NoIPNet

ZeroIPv4Filter ==
    [ValidFields |-> 0, SourceAddress |-> ZeroIPv4Address,
     DestinationAddress |-> ZeroIPv4Address, Protocol |-> 0]

ZeroPortRange == [StartRange |-> 0, EndRange |-> 0]

ZeroTCPUDPFilter ==
    [ValidFields |-> 0, SourcePort |-> ZeroPortRange,
     DestinationPort |-> ZeroPortRange]

ZeroEth8023Filter ==
    [ValidFields |-> 0, SourceAddress |-> <<0, 0, 0, 0, 0, 0>>,
     DestinationAddress |-> <<0, 0, 0, 0, 0, 0>>, Protocol |-> 0]

\* the zero value of StaticFilter
ZeroStaticFilter ==
    [Adapter |-> 0, DirectionFlags |-> 0, FilterAction |-> 0, ValidFields |-> 0,
     DataLinkFilter |-> [Selector |-> 0, Eth8023Filter |-> ZeroEth8023Filter],
     NetworkFilter |-> [Selector |-> 0, union |-> ZeroIPv4Filter],
     TransportFilter |-> [Selector |-> 0, union |-> ZeroTCPUDPFilter]]

\* NetworkLayerFilter.SetIPv4: the selector is set and the whole filter is
\* copied over the union
SetIPv4(n, filter) == [Selector |-> IPV4, union |-> filter]

\* TransportLayerFilter.SetTCPUDP, likewise
SetTCPUDP(t, filter) == [Selector |-> TCPUDP, union |-> filter]

\* copy(dst[:], src) into a 6-byte array
CopyMac(dst, src) ==
    [i \in 1..6 |-> IF i <= Len(src) THEN src[i] ELSE dst[i]]

DirectionFlagsOf(d) ==
    CASE d = PacketDirectionIn -> PACKET_FLAG_ON_RECEIVE
      [] d = PacketDirectionOut -> PACKET_FLAG_ON_SEND
      [] d = PacketDirectionBoth -> PACKET_FLAG_ON_SEND + PACKET_FLAG_ON_RECEIVE
      [] OTHER -> 0

FilterActionOf(a) ==
    CASE a = FilterActionPass -> FILTER_PACKET_PASS
      [] a = FilterActionDrop -> FILTER_PACKET_DROP
      [] a = FilterActionRedirect -> FILTER_PACKET_REDIRECT
      [] OTHER -> 0

\* toStaticFilter, data link layer
ToDataLink(filter, sf) ==
    IF filter.SourceMacAddress # NilBytes \/ filter.DestinationMacAddress # NilBytes
          \/ filter.EthernetType > 0
    THEN LET e0 == sf.DataLinkFilter.Eth8023Filter
             e1 == IF filter.SourceMacAddress # NilBytes
                   THEN [e0 EXCEPT
                           !.ValidFields = OrBit(@, ETH_802_3_SRC_ADDRESS),
                           !.SourceAddress = CopyMac(@, filter.SourceMacAddress)]
                   ELSE e0
             e2 == IF filter.DestinationMacAddress # NilBytes
                   THEN [e1 EXCEPT
                           !.ValidFields = OrBit(@, ETH_802_3_DEST_ADDRESS),
                           !.DestinationAddress =
                               CopyMac(@, filter.DestinationMacAddress)]
                   ELSE e1
             e3 == IF filter.EthernetType > 0
                   THEN [e2 EXCEPT
                           !.ValidFields = OrBit(@, ETH_802_3_PROTOCOL),
                           !.Protocol = filter.EthernetType]
                   ELSE e2
         IN [sf EXCEPT !.ValidFields = OrBit(@, DATA_LINK_LAYER_VALID),
                       !.DataLinkFilter = [Selector |-> ETH_802_3,
                                           Eth8023Filter |-> e3]]
    ELSE sf

\* toStaticFilter, network layer, for IPv4 addresses: each of the source
\* address, the destination address and the protocol is stored with a SetIPv4
\* of its own, and the protocol only when a source address is given
ToNetwork(filter, sf) ==
    IF filter.SourceAddress.IP # NilBytes \/ filter.DestinationAddress.IP # NilBytes
          \/ filter.Protocol > 0
    THEN LET n0 == IF filter.SourceAddress.IP # NilBytes
                   THEN [sf.NetworkFilter EXCEPT !.Selector = IPV4]
                   ELSE sf.NetworkFilter
             n1 == IF filter.SourceAddress.IP # NilBytes
                   THEN SetIPv4(n0, [ZeroIPv4Filter EXCEPT
                           !.ValidFields = IP_V4_FILTER_SRC_ADDRESS,
                           !.SourceAddress = IPv4AddressFromIP(filter.SourceAddress)])
                   ELSE n0
             n2 == IF filter.DestinationAddress.IP # NilBytes
                   THEN SetIPv4(n1, [ZeroIPv4Filter EXCEPT
                           !.ValidFields = IP_V4_FILTER_DEST_ADDRESS,
                           !.DestinationAddress =
                               IPv4AddressFromIP(filter.DestinationAddress)])
                   ELSE n1
             n3 == IF filter.Protocol > 0 /\ filter.SourceAddress.IP # NilBytes
                   THEN SetIPv4(n2, [ZeroIPv4Filter EXCEPT
                           !.ValidFields = IP_V4_FILTER_PROTOCOL,
                           !.Protocol = filter.Protocol])
                   ELSE n2
         IN [sf EXCEPT !.ValidFields = OrBit(@, NETWORK_LAYER_VALID),
                       !.NetworkFilter = n3]
    ELSE sf

\* toStaticFilter, transport layer: each port range is stored with a
\* SetTCPUDP of its own
ToTransport(filter, sf) ==
    IF filter.SourcePort # NoPorts \/ filter.DestinationPort # NoPorts
    THEN LET t0 == [sf.TransportFilter EXCEPT !.Selector = TCPUDP]
             t1 == IF filter.SourcePort # NoPorts
                   THEN SetTCPUDP(t0, [ZeroTCPUDPFilter EXCEPT
                           !.ValidFields = TCPUDP_SRC_PORT,
                           !.SourcePort = [StartRange |-> filter.SourcePort[1],
                                           EndRange |-> filter.SourcePort[2]]])
                   ELSE t0
             t2 == IF filter.DestinationPort # NoPorts
                   THEN SetTCPUDP(t1, [ZeroTCPUDPFilter EXCEPT
                           !.ValidFields = TCPUDP_DEST_PORT,
                           !.DestinationPort =
                               [StartRange |-> filter.DestinationPort[1],
                                EndRange |-> filter.DestinationPort[2]]])
                   ELSE t1
         IN [sf EXCEPT !.ValidFields = OrBit(@, TRANSPORT_LAYER_VALID),
                       !.TransportFilter = t2]
    ELSE sf

toStaticFilter(filter) ==
    ToTransport(filter, ToNetwork(filter, ToDataLink(filter,
        [ZeroStaticFilter EXCEPT
            !.Adapter = filter.AdapterHandle,
            !.DirectionFlags = DirectionFlagsOf(filter.Direction),
            !.FilterAction = FilterActionOf(filter.Action)])))

DirectionOf(flags) ==
    IF HasBit(flags, PACKET_FLAG_ON_RECEIVE)
    THEN IF HasBit(flags, PACKET_FLAG_ON_SEND)
         THEN PacketDirectionBoth
         ELSE PacketDirectionIn
    ELSE IF HasBit(flags, PACKET_FLAG_ON_SEND)
         THEN PacketDirectionOut
         ELSE PacketDirectionIn

ActionOf(a) ==
    CASE a = FILTER_PACKET_PASS -> FilterActionPass
      [] a = FILTER_PACKET_DROP -> FilterActionDrop
      [] a = FILTER_PACKET_REDIRECT -> FilterActionRedirect
      [] OTHER -> FilterActionPass

\* fromStaticFilter, data link layer
FromDataLink(sf, filter) ==
    IF HasBit(sf.ValidFields, DATA_LINK_LAYER_VALID)
          /\ sf.DataLinkFilter.Selector = ETH_802_3
    THEN LET e == sf.DataLinkFilter.Eth8023Filter
         IN [filter EXCEPT
               !.SourceMacAddress =
                   IF HasBit(e.ValidFields, ETH_802_3_SRC_ADDRESS)
                   THEN e.SourceAddress ELSE @,
               !.DestinationMacAddress =
                   IF HasBit(e.ValidFields, ETH_802_3_DEST_ADDRESS)
                   THEN e.DestinationAddress ELSE @,
               !.EthernetType =
                   IF HasBit(e.ValidFields, ETH_802_3_PROTOCOL)
                   THEN e.Protocol ELSE @]
    ELSE filter

\* fromStaticFilter, network layer, for the IPv4 selector
FromNetwork(sf, filter) ==
    IF HasBit(sf.ValidFields, NETWORK_LAYER_VALID)
          /\ sf.NetworkFilter.Selector = IPV4
    THEN LET u == sf.NetworkFilter.union
         IN [filter EXCEPT
               !.SourceAddress =
                   IF HasBit(u.ValidFields, IP_V4_FILTER_SRC_ADDRESS)
                   THEN IPv4AddressToIPNet(u.SourceAddress) ELSE @,
               !.DestinationAddress =
                   IF HasBit(u.ValidFields, IP_V4_FILTER_DEST_ADDRESS)
                   THEN IPv4AddressToIPNet(u.DestinationAddress) ELSE @,
               !.Protocol =
                   IF HasBit(u.ValidFields, IP_V4_FILTER_PROTOCOL)
                   THEN u.Protocol ELSE @]
    ELSE filter

\* fromStaticFilter, transport layer
FromTransport(sf, filter) ==
    IF HasBit(sf.ValidFields, TRANSPORT_LAYER_VALID)
          /\ sf.TransportFilter.Selector = TCPUDP
    THEN LET u == sf.TransportFilter.union
         IN [filter EXCEPT
               !.SourcePort =
                   IF HasBit(u.ValidFields, TCPUDP_SRC_PORT)
                   THEN <<u.SourcePort.StartRange, u.SourcePort.EndRange>> ELSE @,
               !.DestinationPort =
                   IF HasBit(u.ValidFields, TCPUDP_DEST_PORT)
                   THEN <<u.DestinationPort.StartRange, u.DestinationPort.EndRange>>
                   ELSE @]
    ELSE filter

fromStaticFilter(sf) ==
    FromTransport(sf, FromNetwork(sf, FromDataLink(sf,
        [ZeroFilter EXCEPT
            !.AdapterHandle = sf.Adapter,
            !.Direction = DirectionOf(sf.DirectionFlags),
            !.Action = ActionOf(sf.FilterAction)])))

\* the rules a conversion is tried on: every combination of the L2, L3 and L4
\* fields, set or not
MacA == <<2, 0, 0, 0, 0, 1>>
MacB == <<2, 0, 0, 0, 0, 2>>
NetA == [IP |-> <<10, 0, 0, 1>>, Mask |-> <<255, 255, 255, 255>>]
NetB == [IP |-> <<192, 168, 1, 0>>, Mask |-> <<255, 255, 255, 0>>]

RuleInputs ==
    {[ZeroFilter EXCEPT
        !.SourceMacAddress = sm, !.DestinationMacAddress = dm,
        !.EthernetType = et, !.SourceAddress = sa, !.DestinationAddress = da,
        !.Protocol = pr, !.SourcePort = sp, !.DestinationPort = dp,
        !.Direction = dir] :
        sm \in {NilBytes, MacA}, dm \in {NilBytes, MacB}, et \in {0, 2048},
        sa \in {NoIPNet, NetA}, da \in {NoIPNet, NetB}, pr \in {0, IPPROTO_ICMP, IPPROTO_TCP},
        sp \in {NoPorts, <<1024, 2048>>}, dp \in {NoPorts, <<443, 443>>},
        dir \in {PacketDirectionIn, PacketDirectionBoth}}

NoRecord == [none |-> TRUE]

\* a rule is converted to the driver record
RuleToStatic ==
    /\ engine = "rule"
    /\ rec = NoRecord
    /\ rec' = toStaticFilter(rule)
    /\ UNCHANGED <<rule, back, engine, engineVars, tableVars>>

\* the driver record is converted back
RuleFromStatic ==
    /\ engine = "rule"
    /\ rec # NoRecord
    /\ back = NoRecord
    /\ back' = fromStaticFilter(rec)
    /\ UNCHANGED <<rule, rec, engine, engineVars, tableVars>>

(***************************************************************************)
(* StaticFilters: the user-space mirror and the driver's table             *)
(***************************************************************************)
TableRules ==
    {[ZeroFilter EXCEPT !.SourcePort = <<80, 80>>],
     [ZeroFilter EXCEPT !.SourceMacAddress = MacA, !.Action = FilterActionDrop]}

NoTblCall == [op |-> "none", asked |-> FALSE, accepted |-> FALSE, ret |-> FALSE]

\* append([]Filter{*filter}, f.Filters...)
PushFront(fs, r) == <<r>> \o fs

\* append(f.Filters, *filter)
PushBack(fs, r) == Append(fs, r)

\* append(f.Filters[:position], append([]Filter{*filter}, f.Filters[position:]...)...)
InsertAt(fs, r, position) ==
    SubSeq(fs, 1, position) \o <<r>> \o SubSeq(fs, position + 1, Len(fs))

\* append(f.Filters[:position], f.Filters[position+1:]...)
RemoveAt(fs, position) ==
    SubSeq(fs, 1, position) \o SubSeq(fs, position + 2, Len(fs))

\* the driver: a request may be refused for reasons of its own, and is
\* refused when the table is full or the position does not exist
DrvCanInsert(position) == Len(drvTable) < MaxTable /\ position <= Len(drvTable)
DrvCanRemove(position) == position < Len(drvTable)

\* variant: the mirror is updated whatever the driver answered
TableCallUnchecked(op, ok, newMirror, newTable) ==
    /\ tblCall' = [op |-> op, asked |-> TRUE, accepted |-> ok, ret |-> ok]
    /\ Filters' = newMirror
    /\ drvTable' = IF ok THEN newTable ELSE drvTable

\* if err == nil { f.Filters = ...; return true }; return false
TableCall(op, ok, newMirror, newTable) ==
    /\ tblCall' = [op |-> op, asked |-> TRUE, accepted |-> ok, ret |-> ok]
    /\ Filters' = IF ok THEN newMirror ELSE Filters
    /\ drvTable' = IF ok THEN newTable ELSE drvTable

\* AddFilterFront
AddFilterFront ==
    /\ engine = "table"
    /\ Len(Filters) < MaxTable
    /\ \E r \in TableRules, ok \in BOOLEAN :
          TableCall("add-front", ok /\ DrvCanInsert(0),
                    PushFront(Filters, r), PushFront(drvTable, toStaticFilter(r)))
    /\ UNCHANGED <<engine, engineVars, ruleVars>>

\* AddFilterBack
AddFilterBack ==
    /\ engine = "table"
    /\ Len(Filters) < MaxTable
    /\ \E r \in TableRules, ok \in BOOLEAN :
          TableCall("add-back", ok /\ DrvCanInsert(Len(drvTable)),
                    PushBack(Filters, r), PushBack(drvTable, toStaticFilter(r)))
    /\ UNCHANGED <<engine, engineVars, ruleVars>>

\* InsertFilter: a position beyond the mirror is refused without a request
InsertFilter ==
    /\ engine = "table"
    /\ Len(Filters) < MaxTable
    /\ \E r \in TableRules, position \in 0..MaxTable, ok \in BOOLEAN :
          IF position > Len(Filters)
          THEN /\ tblCall' = [op |-> "insert", asked |-> FALSE, accepted |-> FALSE,
                            ret |-> FALSE]
               /\ UNCHANGED <<Filters, drvTable>>
          ELSE TableCall("insert", ok /\ DrvCanInsert(position),
                         InsertAt(Filters, r, position),
                         InsertAt(drvTable, toStaticFilter(r), position))
    /\ UNCHANGED <<engine, engineVars, ruleVars>>

\* RemoveFilter: a position not in the mirror is refused without a request
RemoveFilter ==
    /\ engine = "table"
    /\ \E position \in 0..MaxTable, ok \in BOOLEAN :
          IF position >= Len(Filters)
          THEN /\ tblCall' = [op |-> "remove", asked |-> FALSE, accepted |-> FALSE,
                            ret |-> FALSE]
               /\ UNCHANGED <<Filters, drvTable>>
          ELSE TableCall("remove", ok /\ DrvCanRemove(position),
                         RemoveAt(Filters, position), RemoveAt(drvTable, position))
    /\ UNCHANGED <<engine, engineVars, ruleVars>>

\* Close: ResetPacketFilterTable, its result dropped
StaticFiltersClose ==
    /\ engine = "table"
    /\ \E ok \in BOOLEAN :
          /\ drvTable' = IF ok THEN <<>> ELSE drvTable
          /\ tblCall' = [op |-> "reset", asked |-> TRUE, accepted |-> ok,
                       ret |-> FALSE]
    /\ UNCHANGED <<Filters, engine, engineVars, ruleVars>>

(***************************************************************************)
(* UnsortedPacketBlock                                                     *)
(***************************************************************************)
Adapters == 1..NumAdapters
NoHandle == 0

\* an IntermediateBuffer of an unsorted block: origin is the adapter handle in
\* HAdapterQLinkUnion; was and ovr record what the last classification found
\* and returned
ZeroUnsorted == [id |-> 0, flags |-> 0, origin |-> NoHandle, was |-> NoHandle,
                 ovr |-> NoHandle]

\* the write requests hold pointers into packetBuffer, kept as indexes
NewUnsortedPacketBlock ==
    [packetsSuccess |-> 0,
     packetBuffer |-> [i \in 1..UnsortedBlock |-> ZeroUnsorted],
     writeAdapterRequest |-> <<>>,
     writeMstcpRequest |-> <<>>]

SetWriteAdapterRequest(b, request) == [b EXCEPT !.writeAdapterRequest = request]
SetWriteMstcpRequest(b, request) == [b EXCEPT !.writeMstcpRequest = request]
ClearWriteAdapterRequest(b) == [b EXCEPT !.writeAdapterRequest = <<>>]
ClearWriteMstcpRequest(b) == [b EXCEPT !.writeMstcpRequest = <<>>]

\* HAdapterQLinkUnion.SetAdapter, and the same leaving the union alone
SetAdapterIgnored(e, h) == e
SetAdapter(e, h) == [e EXCEPT !.origin = h]

(***************************************************************************)
(* The driver side of the unsorted read: it fills the first buffers of the *)
(* request with the head of its queue and fails when the queue is empty.   *)
(* NdisApi.ReadPacketsUnsorted stores len(request.Packets), the capacity   *)
(* it was given, as the count and returns err == nil.                      *)
(***************************************************************************)
ReadPacketsUnsorted(q, b) ==
    LET k == Min(Len(q), UnsortedBlock)
    IN [ret |-> (k > 0),
        block |-> [b EXCEPT !.packetsSuccess = UnsortedBlock,
                            !.packetBuffer = [i \in 1..UnsortedBlock |->
                                               IF i <= k THEN q[i]
                                               ELSE [@[i] EXCEPT !.was = NoHandle,
                                                                 !.ovr = NoHandle]]],
        got |-> k,
        rest |-> Drop(q, k)]

(***************************************************************************)
(* QueuedMultiInterfacePacketFilter                                        *)
(***************************************************************************)
Range(s) == {s[i] : i \in 1..Len(s)}

\* initializeNetworkInterfaces: the facades of the adapters of the list whose
\* creation succeeded, in the order of the list
Enumerated(ok) == SelectSeq([i \in 1..NumAdapters |-> i], LAMBDA a : a \in ok)

TunnelMode ==
    (IF "out" \in hooks THEN MSTCP_FLAG_SENT_TUNNEL ELSE 0)
    + (IF "in" \in hooks THEN MSTCP_FLAG_RECV_TUNNEL ELSE 0)

ModeOff == [flags |-> 0, bound |-> FALSE]

\* the same without the comparison of the names: every facade is filtered
UpdateIgnoringNames(st, ifaces, names, am) ==
    [a \in Adapters |->
        IF a \notin Range(ifaces) THEN am[a]
        ELSE IF st = FilterStateRunning
             THEN [flags |-> TunnelMode, bound |-> TRUE]
             ELSE ModeOff]

\* UpdateAdaptersFilterState over the facades ifaces with the state st and the
\* filtered names: SetMode and SetPacketEvent for a match, ResetPacketEvent
\* and SetMode(0) otherwise
UpdateAdaptersFilterState(st, ifaces, names, am) ==
    [a \in Adapters |->
        IF a \notin Range(ifaces) THEN am[a]
        ELSE IF st = FilterStateRunning /\ a \in Range(names)
             THEN [flags |-> TunnelMode, bound |-> TRUE]
             ELSE ModeOff]

\* UnfilterNetworkAdapter: the first occurrence of the name is removed
RemoveFirst(names, n) ==
    IF n \notin Range(names) THEN names
    ELSE LET i == CHOOSE j \in 1..Len(names) :
                     names[j] = n /\ \A k \in 1..(j - 1) : names[k] # n
         IN Prefix(names, i - 1) \o Drop(names, i)

\* what the classifiers may return for the buffers of a block
Answers == [action : verdictChoice, handle : handleChoice]

\* packetProcess, the classifier call for buffer e: a nil classifier leaves
\* FilterActionPass and no override
Answered(e, ans) ==
    LET hook == IF e.flags = PACKET_FLAG_ON_SEND THEN "out" ELSE "in"
    IN IF hook \in hooks THEN ans ELSE [action |-> FilterActionPass, handle |-> NoHandle]

\* packetProcess, the loop over the block: wa and wm are the two slices taken
\* from the block before the loop, to which every append is made
ProcessBlock(b, acts) ==
    LET wa == b.writeAdapterRequest
        wm == b.writeMstcpRequest
        RECURSIVE From(_, _)
        From(blk, i) ==
            IF i > blk.packetsSuccess THEN blk
            ELSE LET e == blk.packetBuffer[i]
                     r == Answered(e, acts[i])
                     seen == [e EXCEPT !.was = e.origin, !.ovr = r.handle]
                     e2 == IF r.handle # NoHandle THEN SetAdapter(seen, r.handle)
                           ELSE seen
                     b1 == [blk EXCEPT !.packetBuffer[i] = e2]
                     b2 == IF r.action = FilterActionPass
                           THEN IF e.flags = PACKET_FLAG_ON_SEND
                                THEN SetWriteAdapterRequest(b1, Append(wa, i))
                                ELSE SetWriteMstcpRequest(b1, Append(wm, i))
                           ELSE IF r.action = FilterActionRedirect
                           THEN IF e.flags = PACKET_FLAG_ON_RECEIVE
                                THEN SetWriteAdapterRequest(b1, Append(wa, i))
                                ELSE SetWriteMstcpRequest(b1, Append(wm, i))
                           ELSE b1
                 IN From(b2, i + 1)
    IN From(b, 1)

\* the buffers of a block whose verdict was pass or redirect
Kept(b, acts) ==
    {i \in 1..b.packetsSuccess :
        Answered(b.packetBuffer[i], acts[i]).action
            \in {FilterActionPass, FilterActionRedirect}}

NoProcessed == [kept |-> {}, wa |-> <<>>, wm |-> <<>>]

\* what the multi-adapter engine leaves alone
notMulti == <<engine, tableVars, ruleVars, mode, starts, startBudget, pktBudget,
              flagChoice, verdictChoice, logVars, queuedVars, workerVars,
              fastVars, adapter, idxChoice, handleChoice, sendChoice, hooks, api, thr>>

\* Environment: the driver queues an envelope of an adapter whose mode
\* intercepts its direction, and signals the event bound to the adapter
MultiArrive ==
    /\ engine = "multi"
    /\ arrived < pktBudget
    /\ \E a \in Adapters, f \in flagChoice :
          /\ \/ f = PACKET_FLAG_ON_SEND
                /\ HasBit(adapterMode[a].flags, MSTCP_FLAG_SENT_TUNNEL)
             \/ f = PACKET_FLAG_ON_RECEIVE
                /\ HasBit(adapterMode[a].flags, MSTCP_FLAG_RECV_TUNNEL)
          /\ drvQueue' = Append(drvQueue, [ZeroUnsorted EXCEPT
                                             !.id = arrived + 1, !.flags = f,
                                             !.origin = a])
          /\ packetEvent' = (packetEvent \/ adapterMode[a].bound)
    /\ arrived' = arrived + 1
    /\ UNCHANGED <<filterState, upc, lastCall, ncalls, networkInterfaces, mtx,
                   filterAdapterList, marg, adapterEvent, monpc, adapterMode,
                   mchans, mwpc, mheld, mctxDone, injected, processed, notMulti>>

\* Environment: the driver signals a change of the adapter list
AdapterListChange ==
    /\ engine = "multi"
    /\ ~adapterEvent
    /\ adapterEvent' = TRUE
    /\ UNCHANGED <<filterState, upc, lastCall, ncalls, drvQueue, arrived,
                   packetEvent, networkInterfaces, mtx, filterAdapterList, marg,
                   monpc, adapterMode, mchans, mwpc, mheld, mctxDone, injected,
                   processed, notMulti>>

\* StartFilter: the state test and f.filterState = FilterStateStarting; the
\* caller then waits for the mutex
MultiStartFilter ==
    /\ engine = "multi"
    /\ upc = "idle"
    /\ ncalls < MultiCalls
    /\ ncalls' = ncalls + 1
    /\ IF filterState # FilterStateStopped
       THEN /\ Returned("start", TRUE)
            /\ UNCHANGED <<filterState, upc>>
       ELSE /\ filterState' = FilterStateStarting
            /\ upc' = "start.lock"
            /\ UNCHANGED lastCall
    /\ UNCHANGED <<drvQueue, arrived, packetEvent, networkInterfaces, mtx,
                   filterAdapterList, marg, adapterEvent, monpc, adapterMode,
                   mchans, mwpc, mheld, mctxDone, injected, processed, notMulti>>

\* FilterNetworkAdapter(name): the caller waits for the mutex
FilterNetworkAdapter ==
    /\ engine = "multi"
    /\ upc = "idle"
    /\ ncalls < MultiCalls
    /\ ncalls' = ncalls + 1
    /\ \E name \in Adapters : marg' = name
    /\ upc' = "filter.lock"
    /\ UNCHANGED <<filterState, lastCall, drvQueue, arrived, packetEvent,
                   networkInterfaces, mtx, filterAdapterList, adapterEvent,
                   monpc, adapterMode, mchans, mwpc, mheld, mctxDone, injected,
                   processed, notMulti>>

\* UnfilterNetworkAdapter(name): the caller waits for the mutex
UnfilterNetworkAdapter ==
    /\ engine = "multi"
    /\ upc = "idle"
    /\ ncalls < MultiCalls
    /\ ncalls' = ncalls + 1
    /\ \E name \in Adapters : marg' = name
    /\ upc' = "unfilter.lock"
    /\ UNCHANGED <<filterState, lastCall, drvQueue, arrived, packetEvent,
                   networkInterfaces, mtx, filterAdapterList, adapterEvent,
                   monpc, adapterMode, mchans, mwpc, mheld, mctxDone, injected,
                   processed, notMulti>>

\* Close: the state test, Stopping, adapterEvent.Signal(); the caller then
\* waits for the mutex
MultiClose ==
    /\ engine = "multi"
    /\ upc = "idle"
    /\ ncalls < MultiCalls
    /\ ncalls' = ncalls + 1
    /\ IF filterState # FilterStateRunning
       THEN /\ Returned("stop", TRUE)
            /\ UNCHANGED <<filterState, upc, adapterEvent>>
       ELSE /\ filterState' = FilterStateStopping
            /\ adapterEvent' = TRUE
            /\ upc' = "close.lock"
            /\ UNCHANGED lastCall
    /\ UNCHANGED <<drvQueue, arrived, packetEvent, networkInterfaces, mtx,
                   filterAdapterList, marg, monpc, adapterMode, mchans, mwpc,
                   mheld, mctxDone, injected, processed, notMulti>>

\* Reconfigure: the state test, then the facades are enumerated again; the
\* mutex is not taken
MultiReconfigure ==
    /\ engine = "multi"
    /\ upc = "idle"
    /\ ncalls < MultiCalls
    /\ ncalls' = ncalls + 1
    /\ IF filterState # FilterStateStopped
       THEN /\ Returned("reconfigure", TRUE)
            /\ UNCHANGED networkInterfaces
       ELSE /\ \E ok \in SUBSET Adapters : networkInterfaces' = Enumerated(ok)
            /\ Returned("reconfigure", FALSE)
    /\ UNCHANGED <<filterState, upc, drvQueue, arrived, packetEvent, mtx,
                   filterAdapterList, marg, adapterEvent, monpc, adapterMode,
                   mchans, mwpc, mheld, mctxDone, injected, processed, notMulti>>

\* the stage workers of the last start have all returned
WorkersDone == \A st \in Stages : mwpc[st] \in {"none", "exit"}

\* StartFilter with the mutex: the filtered names default to every facade,
\* Running, initFilter, the four workers, UpdateAdaptersFilterState, return
\* nil. The mutex is not released.
StartLocked ==
    LET names == IF filterAdapterList = <<>> THEN networkInterfaces
                 ELSE filterAdapterList
    IN /\ mtx' = TRUE
       /\ filterAdapterList' = names
       /\ filterState' = FilterStateRunning
       /\ mchans' = [mchans EXCEPT !["read"] =
                        @ \o [i \in 1..UnsortedMaximumBlockNum |-> NewUnsortedPacketBlock]]
       /\ mctxDone' = FALSE
       /\ mwpc' = [st \in Stages |-> "head"]
       /\ adapterMode' = UpdateAdaptersFilterState(FilterStateRunning,
                              networkInterfaces, names, adapterMode)
       /\ upc' = "idle"
       /\ Returned("start", FALSE)
       /\ UNCHANGED <<drvQueue, packetEvent, mheld>>

\* FilterNetworkAdapter with the mutex, which is released on return
FilterLocked ==
    /\ filterAdapterList' = Append(filterAdapterList, marg)
    /\ adapterMode' = UpdateAdaptersFilterState(filterState, networkInterfaces,
                           filterAdapterList', adapterMode)
    /\ upc' = "idle"
    /\ Returned("filter", FALSE)
    /\ UNCHANGED <<mtx, filterState, mchans, mctxDone, mwpc, drvQueue,
                   packetEvent, mheld>>

\* UnfilterNetworkAdapter with the mutex, which is released on return
UnfilterLocked ==
    /\ filterAdapterList' = RemoveFirst(filterAdapterList, marg)
    /\ adapterMode' = UpdateAdaptersFilterState(filterState, networkInterfaces,
                           filterAdapterList', adapterMode)
    /\ upc' = "idle"
    /\ Returned("unfilter", FALSE)
    /\ UNCHANGED <<mtx, filterState, mchans, mctxDone, mwpc, drvQueue,
                   packetEvent, mheld>>

\* Close with the mutex: every facade is closed (its event signalled, its
\* mode cleared, its queue flushed), the mutex is released, cancel(), the
\* four channels are drained; the caller then waits in wg.Wait()
CloseLocked ==
    /\ adapterMode' = [a \in Adapters |->
                          IF a \in Range(networkInterfaces)
                          THEN [adapterMode[a] EXCEPT !.flags = 0]
                          ELSE adapterMode[a]]
    /\ packetEvent' = (packetEvent \/ networkInterfaces # <<>>)
    /\ drvQueue' = SelectSeq(drvQueue,
                             LAMBDA e : e.origin \notin Range(networkInterfaces))
    /\ mctxDone' = TRUE
    /\ mchans' = [st \in Stages |-> <<>>]
    /\ upc' = "close.wait"
    /\ UNCHANGED <<mtx, filterState, filterAdapterList, mwpc, mheld, lastCall>>

\* Close: wg.Wait() returns, Stopped, return nil
CloseWaited ==
    /\ filterState' = FilterStateStopped
    /\ upc' = "idle"
    /\ Returned("stop", FALSE)
    /\ UNCHANGED <<mtx, filterAdapterList, adapterMode, mchans, mctxDone, mwpc,
                   drvQueue, packetEvent, mheld>>

\* the calling thread, blocked in Lock() or in wg.Wait(), goes on. Close never
\* gets past its Lock(): the only way to Running is StartFilter, which keeps
\* the mutex.
MultiResume ==
    /\ engine = "multi"
    /\ \/ upc \in {"start.lock", "filter.lock", "unfilter.lock", "close.lock"}
          /\ ~mtx
       \/ upc = "close.wait" /\ WorkersDone
    /\ CASE upc = "start.lock" -> StartLocked
         [] upc = "filter.lock" -> FilterLocked
         [] upc = "unfilter.lock" -> UnfilterLocked
         [] upc = "close.lock" -> CloseLocked
         [] OTHER -> CloseWaited
    /\ UNCHANGED <<ncalls, arrived, networkInterfaces, marg, adapterEvent,
                   monpc, injected, processed, notMulti>>

\* monitorAdapterChanges: adapterEvent.Wait returns, Reset; the context the
\* engine was made with is not cancelled, so onNetworkAdapterChange is called
\* and waits for the mutex
MonitorWake ==
    /\ engine = "multi"
    /\ monpc = "wait"
    /\ adapterEvent
    /\ adapterEvent' = FALSE
    /\ monpc' = "lock"
    /\ UNCHANGED <<filterState, upc, lastCall, ncalls, drvQueue, arrived,
                   packetEvent, networkInterfaces, mtx, filterAdapterList, marg,
                   adapterMode, mchans, mwpc, mheld, mctxDone, injected,
                   processed, notMulti>>

\* onNetworkAdapterChange with the mutex: the facades are enumerated again,
\* UpdateAdaptersFilterState, the mutex is released
MonitorChange ==
    /\ engine = "multi"
    /\ monpc = "lock"
    /\ ~mtx
    /\ \E ok \in SUBSET Adapters : networkInterfaces' = Enumerated(ok)
    /\ adapterMode' = UpdateAdaptersFilterState(filterState, networkInterfaces',
                           filterAdapterList, adapterMode)
    /\ monpc' = "wait"
    /\ UNCHANGED <<filterState, upc, lastCall, ncalls, drvQueue, arrived,
                   packetEvent, mtx, filterAdapterList, marg, adapterEvent,
                   mchans, mwpc, mheld, mctxDone, injected, processed, notMulti>>

\* head of a stage loop: select on ctx.Done(), then the filterState test
MultiLoopHead ==
    /\ engine = "multi"
    /\ \E st \in Stages :
          /\ mwpc[st] = "head"
          /\ mwpc' = [mwpc EXCEPT ![st] =
                        IF mctxDone \/ filterState # FilterStateRunning
                        THEN "exit" ELSE "recv"]
    /\ UNCHANGED <<filterState, upc, lastCall, ncalls, drvQueue, arrived,
                   packetEvent, networkInterfaces, mtx, filterAdapterList, marg,
                   adapterEvent, monpc, adapterMode, mchans, mheld, mctxDone,
                   injected, processed, notMulti>>

\* packetRead: a block is received from packetReadChan
MultiReadRecv ==
    /\ engine = "multi"
    /\ mwpc["read"] = "recv"
    /\ mchans["read"] # <<>>
    /\ mheld' = Head(mchans["read"])
    /\ mchans' = [mchans EXCEPT !["read"] = Tail(@)]
    /\ mwpc' = [mwpc EXCEPT !["read"] = "cond"]
    /\ UNCHANGED <<filterState, upc, lastCall, ncalls, drvQueue, arrived,
                   packetEvent, networkInterfaces, mtx, filterAdapterList, marg,
                   adapterEvent, monpc, adapterMode, mctxDone, injected,
                   processed, notMulti>>

\* packetRead: the condition of the loop around the wait; when it fails the
\* block goes to packetProcessChan as it is
MultiReadCond ==
    /\ engine = "multi"
    /\ mwpc["read"] = "cond"
    /\ IF filterState = FilterStateRunning
       THEN /\ mwpc' = [mwpc EXCEPT !["read"] = "wait"]
            /\ UNCHANGED <<mchans, mheld>>
       ELSE /\ mchans' = [mchans EXCEPT !["process"] = Append(@, mheld)]
            /\ mheld' = NoBlock
            /\ mwpc' = [mwpc EXCEPT !["read"] = "head"]
    /\ UNCHANGED <<filterState, upc, lastCall, ncalls, drvQueue, arrived,
                   packetEvent, networkInterfaces, mtx, filterAdapterList, marg,
                   adapterEvent, monpc, adapterMode, mctxDone, injected,
                   processed, notMulti>>

\* packetRead: packetEvent.Wait returns, Reset, ReadPacketsUnsorted; the block
\* goes to packetProcessChan when the read succeeded with a count above 0
MultiReadPackets ==
    /\ engine = "multi"
    /\ mwpc["read"] = "wait"
    /\ packetEvent
    /\ packetEvent' = FALSE
    /\ LET r == ReadPacketsUnsorted(drvQueue, mheld)
       IN /\ drvQueue' = r.rest
          /\ IF r.ret /\ r.block.packetsSuccess > 0
             THEN /\ mchans' = [mchans EXCEPT !["process"] = Append(@, r.block)]
                  /\ mheld' = NoBlock
                  /\ mwpc' = [mwpc EXCEPT !["read"] = "head"]
             ELSE /\ mheld' = r.block
                  /\ mwpc' = [mwpc EXCEPT !["read"] = "cond"]
                  /\ UNCHANGED mchans
    /\ UNCHANGED <<filterState, upc, lastCall, ncalls, arrived,
                   networkInterfaces, mtx, filterAdapterList, marg,
                   adapterEvent, monpc, adapterMode, mctxDone, injected,
                   processed, notMulti>>

\* packetProcess: a block is received, its buffers are classified, it goes to
\* packetWriteMstcpChan
MultiPacketProcess ==
    /\ engine = "multi"
    /\ mwpc["process"] = "recv"
    /\ mchans["process"] # <<>>
    /\ LET b == Head(mchans["process"])
       IN \E acts \in [1..b.packetsSuccess -> Answers] :
             LET done == ProcessBlock(b, acts)
             IN /\ mchans' = [mchans EXCEPT !["process"] = Tail(@),
                                            !["mstcp"] = Append(@, done)]
                /\ processed' = [kept |-> Kept(b, acts),
                                 wa |-> done.writeAdapterRequest,
                                 wm |-> done.writeMstcpRequest]
    /\ mwpc' = [mwpc EXCEPT !["process"] = "head"]
    /\ UNCHANGED <<filterState, upc, lastCall, ncalls, drvQueue, arrived,
                   packetEvent, networkInterfaces, mtx, filterAdapterList, marg,
                   adapterEvent, monpc, adapterMode, mheld, mctxDone, injected,
                   notMulti>>

\* the buffers a write request points to, as handed to a send call that
\* takes all but the last short of them
Sent(b, request, to, short) ==
    {[to |-> to, env |-> b.packetBuffer[request[i]],
      sent |-> i <= Len(request) - short] : i \in 1..Len(request)}

\* packetWriteMstcp: a block is received, SendPacketsToMstcpUnsorted for a
\* request that is not empty, packetsSent is not looked at, the request is
\* cleared and the block goes to packetWriteAdapterChan
MultiPacketWriteMstcp ==
    /\ engine = "multi"
    /\ mwpc["mstcp"] = "recv"
    /\ mchans["mstcp"] # <<>>
    /\ LET b == Head(mchans["mstcp"])
       IN /\ \E short \in sendChoice :
               injected' = injected \cup Sent(b, b.writeMstcpRequest, "mstcp", short)
          /\ mchans' = [mchans EXCEPT !["mstcp"] = Tail(@),
                                      !["adapter"] = Append(@, ClearWriteMstcpRequest(b))]
    /\ mwpc' = [mwpc EXCEPT !["mstcp"] = "head"]
    /\ UNCHANGED <<filterState, upc, lastCall, ncalls, drvQueue, arrived,
                   packetEvent, networkInterfaces, mtx, filterAdapterList, marg,
                   adapterEvent, monpc, adapterMode, mheld, mctxDone, processed,
                   notMulti>>

\* packetWriteAdapter: a block is received, SendPacketsToAdaptersUnsorted for
\* a request that is not empty, packetsSent is not looked at, the request is
\* cleared and the block goes back to packetReadChan
MultiPacketWriteAdapter ==
    /\ engine = "multi"
    /\ mwpc["adapter"] = "recv"
    /\ mchans["adapter"] # <<>>
    /\ LET b == Head(mchans["adapter"])
       IN /\ \E short \in sendChoice :
               injected' = injected \cup
                              Sent(b, b.writeAdapterRequest, "adapter", short)
          /\ mchans' = [mchans EXCEPT !["adapter"] = Tail(@),
                                      !["read"] = Append(@, ClearWriteAdapterRequest(b))]
    /\ mwpc' = [mwpc EXCEPT !["adapter"] = "head"]
    /\ UNCHANGED <<filterState, upc, lastCall, ncalls, drvQueue, arrived,
                   packetEvent, networkInterfaces, mtx, filterAdapterList, marg,
                   adapterEvent, monpc, adapterMode, mheld, mctxDone, processed,
                   notMulti>>

\* the engine's own steps, as opposed to those of the driver
MultiProgramNext ==
    \/ MultiStartFilter
    \/ FilterNetworkAdapter
    \/ UnfilterNetworkAdapter
    \/ MultiClose
    \/ MultiReconfigure
    \/ MultiResume
    \/ MonitorWake
    \/ MonitorChange
    \/ MultiLoopHead
    \/ MultiReadRecv
    \/ MultiReadCond
    \/ MultiReadPackets
    \/ MultiPacketProcess
    \/ MultiPacketWriteMstcp
    \/ MultiPacketWriteAdapter

(***************************************************************************)
(* Reconfigure of the single-adapter engines                               *)
(***************************************************************************)
\* variant: the facades are created again whatever the state
ReconfigureAnyState ==
    /\ engine \in {"queued", "simple", "fastio"}
    /\ upc = "idle"
    /\ ncalls < MaxCalls
    /\ ncalls' = ncalls + 1
    /\ \E ok \in SUBSET Adapters : networkInterfaces' = Enumerated(ok)
    /\ Returned("reconfigure", FALSE)
    /\ UNCHANGED <<engine, filterState, mode, upc, starts, startBudget, envVars,
                   logVars, queuedVars, workerVars, fastVars, adapter, idxChoice,
                   handleChoice, sendChoice, multiVars, api, thr, tableVars, ruleVars>>

\* Reconfigure: an error unless Stopped; else the facades are created again
\* from the adapter list, an adapter whose facade cannot be made is skipped
Reconfigure ==
    /\ engine \in {"queued", "simple", "fastio"}
    /\ upc = "idle"
    /\ ncalls < MaxCalls
    /\ ncalls' = ncalls + 1
    /\ IF filterState # FilterStateStopped
       THEN /\ Returned("reconfigure", TRUE)
            /\ UNCHANGED networkInterfaces
       ELSE /\ \E ok \in SUBSET Adapters : networkInterfaces' = Enumerated(ok)
            /\ Returned("reconfigure", FALSE)
    /\ UNCHANGED <<engine, filterState, mode, upc, starts, startBudget, envVars,
                   logVars, queuedVars, workerVars, fastVars, adapter, idxChoice,
                   handleChoice, sendChoice, multiVars, api, thr, tableVars, ruleVars>>

(***************************************************************************)
(* NdisApi: the driver handle                                              *)
(***************************************************************************)
\* what CreateFile and CreateEvent may answer
CreateFileResults == {"ok", "ERROR_INVALID_HANDLE", "ERROR_FILE_NOT_FOUND"}
CreateEventResults == {"ok", "failed"}

NoRead == [op |-> "none", ret |-> FALSE, got |-> 0]

NoApi == [file |-> "none", event |-> "none", made |-> FALSE,
          isLoadedSuccessfully |-> FALSE, read |-> NoRead, filters |-> "none"]

\* NewNdisApi: the event is created unless CreateFile answered
\* ERROR_INVALID_HANDLE, and isLoadSuccessfully is set in the branch
\* "err != nil" of CreateEvent; the function returns the handle and nil
NewNdisApi(createFile, createEvent) ==
    [file |-> createFile,
     event |-> IF createFile = "ERROR_INVALID_HANDLE" THEN "none" ELSE createEvent,
     made |-> TRUE,
     isLoadedSuccessfully |->
        createFile # "ERROR_INVALID_HANDLE" /\ createEvent # "ok",
     read |-> NoRead,
     filters |-> "none"]

IsDriverLoaded == api.isLoadedSuccessfully

\* the device was opened and its event exists
DeviceOpened == api.file = "ok" /\ api.event = "ok"

\* the driver side of the single-frame read: the ioctl fails when the queue
\* is empty; NdisApi.ReadPacket returns err != nil
ReadPacket(q) ==
    LET n == Min(Len(q), 1)
    IN [ret |-> (n = 0), packets |-> Prefix(q, n), rest |-> Drop(q, n)]

ApiNewNdisApi ==
    /\ engine = "api"
    /\ ~api.made
    /\ \E createFile \in CreateFileResults, createEvent \in CreateEventResults :
          api' = NewNdisApi(createFile, createEvent)
    /\ UNCHANGED <<engine, filterState, mode, callVars, envVars, logVars,
                   queuedVars, workerVars, fastVars, adapter, idxChoice,
                   handleChoice, sendChoice, networkInterfaces, multiVars, thr, tableVars,
                   ruleVars>>

\* SetAdapterMode on the handle: the ioctl fails on a handle that is not open
ApiSetAdapterMode ==
    /\ engine = "api"
    /\ api.made
    /\ mode = 0
    /\ mode' = IF api.file = "ok" THEN TunnelMode ELSE mode
    /\ UNCHANGED <<engine, filterState, callVars, envVars, logVars,
                   queuedVars, workerVars, fastVars, adapter, extVars,
                   tableVars, ruleVars>>

\* the driver queues an envelope of the adapter
ApiArrive ==
    /\ engine = "api"
    /\ api.file = "ok"
    /\ mode # 0
    /\ arrived < pktBudget
    /\ \E f \in flagChoice :
          drvQueue' = Append(drvQueue, [id |-> arrived + 1, flags |-> f])
    /\ arrived' = arrived + 1
    /\ packetEvent' = TRUE
    /\ UNCHANGED <<engine, filterState, mode, callVars, pktBudget, flagChoice,
                   verdictChoice, logVars, queuedVars, workerVars, fastVars,
                   adapter, extVars, tableVars, ruleVars>>

\* the two reads, their result kept with the number of envelopes they returned
ApiRead(op, r) ==
    /\ api' = [api EXCEPT !.read = [op |-> op, ret |-> r.ret,
                                     got |-> Len(r.packets)]]
    /\ drvQueue' = r.rest
    /\ readLog' = readLog \o r.packets
    /\ ncalls' = ncalls + 1
    /\ UNCHANGED <<engine, filterState, mode, upc, lastCall, starts,
                   startBudget, pktBudget, flagChoice, verdictChoice, arrived,
                   packetEvent, inLog, outLog, dispatched, sentAdapter,
                   sentMstcp, queuedVars, workerVars, fastVars, adapter,
                   idxChoice, handleChoice, sendChoice, networkInterfaces, multiVars, thr,
                   tableVars, ruleVars>>

ApiReadPackets ==
    /\ engine = "api"
    /\ api.made
    /\ ncalls < MaxCalls
    /\ ApiRead("ReadPackets", ReadPackets(drvQueue))

ApiReadPacket ==
    /\ engine = "api"
    /\ api.made
    /\ ncalls < MaxCalls
    /\ ApiRead("ReadPacket", ReadPacket(drvQueue))

\* NewStaticFilters: refused when the handle says the driver is not loaded;
\* the two cache-state ioctls fail on a handle that is not open
ApiNewStaticFilters ==
    /\ engine = "api"
    /\ api.made
    /\ api.filters = "none"
    /\ api' = [api EXCEPT !.filters =
                  IF ~IsDriverLoaded THEN "not available"
                  ELSE IF api.file # "ok" THEN "ioctl failed"
                  ELSE "made"]
    /\ UNCHANGED <<engine, filterState, mode, callVars, envVars, logVars,
                   queuedVars, workerVars, fastVars, adapter, idxChoice,
                   handleChoice, sendChoice, networkInterfaces, multiVars, thr, tableVars,
                   ruleVars>>

NextApi ==
    \/ ApiNewNdisApi
    \/ ApiSetAdapterMode
    \/ ApiArrive
    \/ ApiReadPackets
    \/ ApiReadPacket
    \/ ApiNewStaticFilters

(***************************************************************************)
(* StaticFilters used from several threads                                 *)
(***************************************************************************)
\* StaticFilters holds the handle and the mirror and no lock: a call made by
\* one thread interleaves with the calls of the others at the driver request,
\* at the load of f.Filters and at the store of the appended slice
Threads == 1..NumThreads
IdleThread == [pc |-> "idle", snap |-> <<>>, arg |-> ZeroFilter]
NoThreads == [t \in Threads |-> IdleThread]

notThreads == <<engine, filterState, mode, upc, lastCall, starts, startBudget,
                envVars, logVars, queuedVars, workerVars, fastVars, adapter,
                idxChoice, handleChoice, sendChoice, networkInterfaces, multiVars, api,
                tblCall, ruleVars>>

\* AddFilterBack, up to the answer of AddStaticFilterBack: return false on an
\* error
ThreadAddFilterBack(t) ==
    /\ engine = "threads"
    /\ thr[t].pc = "idle"
    /\ ncalls < MaxCalls
    /\ ncalls' = ncalls + 1
    /\ \E r \in TableRules, ok \in BOOLEAN :
          IF ok /\ DrvCanInsert(Len(drvTable))
          THEN /\ drvTable' = PushBack(drvTable, toStaticFilter(r))
               /\ thr' = [thr EXCEPT ![t] = [pc |-> "load", snap |-> <<>>,
                                             arg |-> r]]
          ELSE UNCHANGED <<drvTable, thr>>
    /\ UNCHANGED <<Filters, notThreads>>

\* append(f.Filters, *filter): the slice is loaded
ThreadLoad(t) ==
    /\ engine = "threads"
    /\ thr[t].pc = "load"
    /\ thr' = [thr EXCEPT ![t].pc = "store", ![t].snap = Filters]
    /\ UNCHANGED <<Filters, drvTable, ncalls, notThreads>>

\* f.Filters = ...: the appended slice is stored; return true
ThreadStore(t) ==
    /\ engine = "threads"
    /\ thr[t].pc = "store"
    /\ Filters' = PushBack(thr[t].snap, thr[t].arg)
    /\ thr' = [thr EXCEPT ![t] = IdleThread]
    /\ UNCHANGED <<drvTable, ncalls, notThreads>>

NextThreads ==
    \E t \in Threads :
        \/ ThreadAddFilterBack(t)
        \/ ThreadLoad(t)
        \/ ThreadStore(t)

(***************************************************************************)
(* Initial states                                                          *)
(***************************************************************************)
InitState ==
    /\ filterState = FilterStateStopped
    /\ mode = 0
    /\ upc = "idle"
    /\ lastCall = NoCall
    /\ ncalls = 0
    /\ starts = 0
    /\ drvQueue = <<>>
    /\ arrived = 0
    /\ packetEvent = FALSE
    /\ readLog = <<>>
    /\ inLog = <<>>
    /\ outLog = <<>>
    /\ dispatched = {}
    /\ sentAdapter = {}
    /\ sentMstcp = {}
    /\ chans = [st \in Stages |-> <<>>]
    /\ wpc = [g \in Gens |-> [st \in Stages |-> "none"]]
    /\ held = [g \in Gens |-> NoBlock]
    /\ ctxDone = [g \in Gens |-> FALSE]
    /\ waStalled = FALSE
    /\ stalledReads = 0
    /\ spc = "none"
    /\ sctxDone = FALSE
    /\ sect = [s \in Sections |-> ZeroSection]
    /\ kst = [s \in Sections |-> "idle"]
    /\ kpend = [s \in Sections |-> NoPend]
    /\ kseq = [s \in Sections |-> <<>>]
    /\ packetBuffer = ZeroBuffer
    /\ dsec = 0
    /\ dn = 0
    /\ dword = 0
    /\ dtotal = 0
    /\ dquiet = FALSE
    /\ lastDrain = NoDrain
    /\ Filters = <<>>
    /\ drvTable = <<>>
    /\ tblCall = NoTblCall
    /\ rec = NoRecord
    /\ back = NoRecord
    /\ adapter = 0
    /\ networkInterfaces = Enumerated(Adapters)
    /\ mtx = FALSE
    /\ filterAdapterList = <<>>
    /\ marg = NoHandle
    /\ adapterEvent = FALSE
    /\ monpc = "wait"
    /\ adapterMode = [a \in Adapters |-> ModeOff]
    /\ mchans = [st \in Stages |-> <<>>]
    /\ mwpc = [st \in Stages |-> "none"]
    /\ mheld = NoBlock
    /\ mctxDone = FALSE
    /\ injected = {}
    /\ processed = NoProcessed
    /\ thr = NoThreads

\* the single-adapter engines are given the index of the first adapter
InitCommon ==
    /\ idxChoice = {0}
    /\ handleChoice = {NoHandle}
    /\ sendChoice = {0}
    /\ hooks = {"in", "out"}
    /\ api = NoApi
    /\ InitState

\* the filter is started and stopped repeatedly; the traffic of one behaviour
\* has one direction and the classifiers pass it
Init ==
    /\ engine \in {"queued", "simple", "fastio"}
    /\ startBudget = MaxStarts
    /\ pktBudget = MaxPkts
    /\ flagChoice \in {{PACKET_FLAG_ON_SEND}, {PACKET_FLAG_ON_RECEIVE}}
    /\ verdictChoice = {FilterActionPass}
    /\ rule = ZeroFilter
    /\ InitCommon

\* the engine's own steps, as opposed to those of the driver
ProgramNext ==
    \/ QueuedNext
    \/ SimpleNext
    \/ FastNext

Next ==
    \/ Arrive
    \/ Kernel
    \/ ProgramNext

Spec == Init /\ [][Next]_vars

\* the filter is started once; traffic of both directions, every verdict
InitDispatch ==
    /\ engine \in {"queued", "simple", "fastio"}
    /\ startBudget = 1
    /\ pktBudget = DispatchPkts
    /\ flagChoice = DeviceFlagValues
    /\ verdictChoice = Verdicts
    /\ rule = ZeroFilter
    /\ InitCommon

SpecDispatch == InitDispatch /\ [][Next]_vars

\* the pipelined engine, restarted, with a write-to-adapter stage that stalls
InitStall ==
    /\ engine = "queued"
    /\ startBudget = MaxStarts
    /\ pktBudget = MaxPkts
    /\ flagChoice = {PACKET_FLAG_ON_RECEIVE}
    /\ verdictChoice = {FilterActionPass}
    /\ rule = ZeroFilter
    /\ InitCommon

NextStall ==
    \/ Arrive
    \/ StallAdapterWrite
    \/ QueuedNext

SpecStall == InitStall /\ [][NextStall]_vars

\* the fast-I/O engine, started once, fed by the driver through its sections
InitFastIO ==
    /\ engine = "fastio"
    /\ startBudget = 1
    /\ pktBudget = FastPkts
    /\ flagChoice = {PACKET_FLAG_ON_RECEIVE}
    /\ verdictChoice = {FilterActionPass}
    /\ rule = ZeroFilter
    /\ InitCommon

NextFastIO ==
    \/ Kernel
    \/ FastNext

SpecFastIO == InitFastIO /\ [][NextFastIO]_vars

\* the fast-I/O engine, started once, the driver writing GrowPkts envelopes
\* to the first section
InitFastGrow ==
    /\ engine = "fastio"
    /\ startBudget = 1
    /\ pktBudget = GrowPkts
    /\ flagChoice = {PACKET_FLAG_ON_RECEIVE}
    /\ verdictChoice = {FilterActionPass}
    /\ rule = ZeroFilter
    /\ InitCommon

KernelFirst == KernelSetWip(1) \/ KernelAppend(1) \/ KernelEnd(1)

NextFastGrow ==
    \/ KernelFirst
    \/ FastNext

SpecFastGrow == InitFastGrow /\ [][NextFastGrow]_vars

\* a sequence of operations on the static filter table
InitFilters ==
    /\ engine = "table"
    /\ startBudget = 0
    /\ pktBudget = 0
    /\ flagChoice = {}
    /\ verdictChoice = {}
    /\ rule = ZeroFilter
    /\ InitCommon

NextFilters ==
    \/ AddFilterFront
    \/ AddFilterBack
    \/ InsertFilter
    \/ RemoveFilter
    \/ StaticFiltersClose

SpecFilters == InitFilters /\ [][NextFilters]_vars

\* one rule, converted to the driver record and back
InitRule ==
    /\ engine = "rule"
    /\ startBudget = 0
    /\ pktBudget = 0
    /\ flagChoice = {}
    /\ verdictChoice = {}
    /\ rule \in RuleInputs
    /\ InitCommon

NextRule ==
    \/ RuleToStatic
    \/ RuleFromStatic

SpecRule == InitRule /\ [][NextRule]_vars

(***************************************************************************)
(* StaticFilters: removal by predicate, storing and loading the table      *)
(***************************************************************************)
\* the predicates RemoveFiltersIf is called with
Predicates == {"drops", "has-port", "any"}

Matches(p, r) ==
    CASE p = "drops" -> r.Action = FilterActionDrop
      [] p = "has-port" -> r.SourcePort # NoPorts
      [] OTHER -> TRUE

\* the answers the driver may give to the successive requests of one call
DriverAnswers == [1..MaxTable -> BOOLEAN]

\* RemoveFiltersIf, the loop from index it on; position and it are equal
\* throughout. fs is f.Filters, tbl the driver's table, n the requests made so
\* far, acc whether all of them were accepted. RemoveFilter(position) takes
\* the rule out of f.Filters when the driver accepts, and the loop then takes
\* f.Filters[it] out again: append(f.Filters[:it], f.Filters[it+1:]...),
\* which panics when it+1 is beyond the length
RECURSIVE RemoveIfFrom(_, _, _, _, _, _, _)
RemoveIfFrom(fs, tbl, it, n, acc, oks, p) ==
    IF it >= Len(fs)
    THEN [Filters |-> fs, drvTable |-> tbl, asked |-> n > 0, accepted |-> acc,
          panic |-> FALSE]
    ELSE IF Matches(p, fs[it + 1])
    THEN IF oks[n + 1] /\ it < Len(tbl)
         THEN LET fs1 == RemoveAt(fs, it)
                  tbl1 == RemoveAt(tbl, it)
              IN IF it + 1 > Len(fs1)
                 THEN [Filters |-> fs1, drvTable |-> tbl1, asked |-> TRUE,
                       accepted |-> acc, panic |-> TRUE]
                 ELSE RemoveIfFrom(RemoveAt(fs1, it), tbl1, it, n + 1, acc, oks, p)
         ELSE RemoveIfFrom(fs, tbl, it + 1, n + 1, FALSE, oks, p)
    ELSE RemoveIfFrom(fs, tbl, it + 1, n, acc, oks, p)

\* RemoveFiltersIf(predicate); a panic ends the program, no operation follows
RemoveFiltersIf ==
    /\ engine = "table"
    /\ \E p \in Predicates, oks \in DriverAnswers :
          LET r == RemoveIfFrom(Filters, drvTable, 0, 0, TRUE, oks, p)
          IN /\ Filters' = r.Filters
             /\ drvTable' = r.drvTable
             /\ tblCall' = [op |-> IF r.panic THEN "remove-if.panic" ELSE "remove-if",
                            asked |-> r.asked, accepted |-> r.accepted,
                            ret |-> FALSE, pred |-> p]
             /\ engine' = IF r.panic THEN "none" ELSE engine
    /\ UNCHANGED <<engineVars, ruleVars>>

\* StoreTable: table points at a zeroed buffer, so table.StaticFilters, a
\* slice, is nil there: the assignment table.StaticFilters[i] of the first
\* rule of the mirror is out of range and panics, which ends the program.
\* With an empty mirror the request carries TableSize 0 and no record, and
\* the driver installs the first TableSize records of the request
StoreTable ==
    /\ engine = "table"
    /\ IF Filters # <<>>
       THEN /\ tblCall' = [op |-> "store.panic", asked |-> FALSE,
                           accepted |-> FALSE, ret |-> FALSE]
            /\ engine' = "none"
            /\ UNCHANGED drvTable
       ELSE /\ \E ok \in BOOLEAN :
                 LET TableSize == Len(Filters)
                     StaticFilters == <<>>
                 IN /\ drvTable' = IF ok THEN SubSeq(StaticFilters, 1, TableSize)
                                   ELSE drvTable
                    /\ tblCall' = [op |-> "store", asked |-> TRUE,
                                   accepted |-> ok, ret |-> ok]
            /\ UNCHANGED engine
    /\ UNCHANGED <<Filters, engineVars, ruleVars>>

\* LoadTable: GetPacketFilterTableSize, then GetPacketFilterTable with a
\* buffer for that many records. The table is the driver's and global: grown
\* are the records another user of the driver adds between the two requests.
\* The driver refuses a buffer smaller than its table.
LoadTable ==
    /\ engine = "table"
    /\ \E grown \in {<<>>} \cup {<<toStaticFilter(r)>> : r \in TableRules} :
          LET tableSize == Len(drvTable)
              table == drvTable \o grown
              fits == Len(table) <= tableSize
          IN /\ Len(table) <= MaxTable
             /\ drvTable' = table
             /\ IF tableSize = 0
                THEN /\ tblCall' = [op |-> "load", asked |-> FALSE,
                                    accepted |-> FALSE, ret |-> FALSE]
                     /\ UNCHANGED Filters
                ELSE /\ tblCall' = [op |-> "load", asked |-> TRUE,
                                    accepted |-> fits, ret |-> fits]
                     /\ Filters' = IF fits
                                   THEN [i \in 1..tableSize |->
                                            fromStaticFilter(table[i])]
                                   ELSE Filters
    /\ UNCHANGED <<engine, engineVars, ruleVars>>

\* a sequence of operations on the static filter table that includes removal
\* by predicate and the transfer of the whole table
NextTable ==
    \/ AddFilterFront
    \/ AddFilterBack
    \/ RemoveFiltersIf
    \/ StoreTable
    \/ LoadTable

SpecTable == InitFilters /\ [][NextTable]_vars

\* the single-adapter engines, started with any adapter index: one below the
\* list, the first of the list, one past its end
InitIndex ==
    /\ engine \in {"queued", "simple", "fastio"}
    /\ startBudget = 1
    /\ pktBudget = DispatchPkts
    /\ flagChoice = {PACKET_FLAG_ON_RECEIVE}
    /\ verdictChoice = {FilterActionPass}
    /\ rule = ZeroFilter
    /\ idxChoice = {0 - 1, 0, NumAdapters}
    /\ handleChoice = {NoHandle}
    /\ sendChoice = {0}
    /\ hooks = {"in", "out"}
    /\ api = NoApi
    /\ InitState

SpecIndex == InitIndex /\ [][Next]_vars

\* the driver handle on its own: it is opened, an adapter is put in tunnel
\* mode, envelopes arrive and are read with the two read calls
InitApi ==
    /\ engine = "api"
    /\ startBudget = 0
    /\ pktBudget = MaxPkts
    /\ flagChoice = DeviceFlagValues
    /\ verdictChoice = {FilterActionPass}
    /\ rule = ZeroFilter
    /\ idxChoice = {0}
    /\ handleChoice = {NoHandle}
    /\ sendChoice = {0}
    /\ hooks = {"in", "out"}
    /\ api = NoApi
    /\ InitState

SpecApi == InitApi /\ [][NextApi]_vars

\* one StaticFilters with an empty table, used by NumThreads threads
InitThreads ==
    /\ engine = "threads"
    /\ startBudget = 0
    /\ pktBudget = 0
    /\ flagChoice = {}
    /\ verdictChoice = {}
    /\ rule = ZeroFilter
    /\ idxChoice = {0}
    /\ handleChoice = {NoHandle}
    /\ sendChoice = {0}
    /\ hooks = {"in", "out"}
    /\ api = NewNdisApi("ok", "failed")
    /\ InitState

SpecThreads == InitThreads /\ [][NextThreads]_vars

\* the multi-adapter engine with its monitor and a thread that starts it,
\* stops it, reconfigures it and changes the filtered names; the classifiers
\* pass the traffic
InitMulti ==
    /\ engine = "multi"
    /\ startBudget = 1
    /\ pktBudget = DispatchPkts
    /\ flagChoice = DeviceFlagValues
    /\ verdictChoice = {FilterActionPass}
    /\ rule = ZeroFilter
    /\ idxChoice = {0}
    /\ handleChoice = {NoHandle}
    /\ sendChoice = {0}
    /\ hooks \in {{"in", "out"}, {"in"}, {"out"}}
    /\ api = NoApi
    /\ InitState

NextMulti ==
    \/ MultiArrive
    \/ AdapterListChange
    \/ MultiProgramNext

SpecMulti == InitMulti /\ [][NextMulti]_vars

\* the multi-adapter engine started on every adapter, traffic of one
\* direction, classifiers returning every verdict and no override
InitMultiFlow ==
    /\ engine = "multi"
    /\ startBudget = 1
    /\ pktBudget = MaxPkts
    /\ flagChoice \in {{PACKET_FLAG_ON_SEND}, {PACKET_FLAG_ON_RECEIVE}}
    /\ verdictChoice = Verdicts
    /\ rule = ZeroFilter
    /\ idxChoice = {0}
    /\ handleChoice = {NoHandle}
    /\ sendChoice = {0}
    /\ hooks = {"in", "out"}
    /\ api = NoApi
    /\ InitState

NextMultiFlow ==
    \/ MultiArrive
    \/ MultiStartFilter
    \/ MultiResume
    \/ MultiLoopHead
    \/ MultiReadRecv
    \/ MultiReadCond
    \/ MultiReadPackets
    \/ MultiPacketProcess
    \/ MultiPacketWriteMstcp
    \/ MultiPacketWriteAdapter

SpecMultiFlow == InitMultiFlow /\ [][NextMultiFlow]_vars

\* the multi-adapter engine started on every adapter, traffic of both
\* directions, classifiers returning every verdict and every override
InitMultiOverride ==
    /\ engine = "multi"
    /\ startBudget = 1
    /\ pktBudget = DispatchPkts
    /\ flagChoice = DeviceFlagValues
    /\ verdictChoice = Verdicts
    /\ rule = ZeroFilter
    /\ idxChoice = {0}
    /\ handleChoice = {NoHandle} \cup Adapters
    /\ sendChoice = {0}
    /\ hooks \in {{"in", "out"}, {"in"}, {"out"}}
    /\ api = NoApi
    /\ InitState

SpecMultiOverride == InitMultiOverride /\ [][NextMultiFlow]_vars

\* the multi-adapter engine started once, inbound envelopes passed on, the
\* driver taking all of a send request or all but its last envelope
InitMultiSend ==
    /\ engine = "multi"
    /\ startBudget = 1
    /\ pktBudget = MaxPkts
    /\ flagChoice = {PACKET_FLAG_ON_RECEIVE}
    /\ verdictChoice = {FilterActionPass}
    /\ rule = ZeroFilter
    /\ idxChoice = {0}
    /\ handleChoice = {NoHandle}
    /\ sendChoice = {0, 1}
    /\ hooks = {"in", "out"}
    /\ api = NoApi
    /\ InitState

SpecMultiSend == InitMultiSend /\ [][NextMultiFlow]_vars

(***************************************************************************)
(* The packet event failing under the reading worker                       *)
(***************************************************************************)
\* filterWorkingThread: WaitEvent or ResetEvent returns an error;
\* f.ctx.Done() only returns the context's channel, then the worker returns
SimpleEventError ==
    /\ engine = "simple"
    /\ spc = "wait"
    /\ spc' = "exit"
    /\ UNCHANGED <<filterState, mode, callVars, envVars, logVars, sctxDone,
                   notWorker>>

\* QueuedPacketFilter.packetRead: WaitEvent or ResetEvent returns an error;
\* ctx.Done(), then the worker returns with the block it holds
ReadEventError(g) ==
    /\ engine = "queued"
    /\ wpc[g]["read"] \in {"wait", "rd"}
    /\ wpc' = [wpc EXCEPT ![g]["read"] = "exit"]
    /\ UNCHANGED <<filterState, mode, callVars, envVars, logVars, chans, held,
                   ctxDone, waStalled, stalledReads, notQueued>>

\* QueuedMultiInterfacePacketFilter.packetRead: packetEvent.Wait or Reset
\* returns an error; ctx.Done(), then the worker returns with the block
MultiEventError ==
    /\ engine = "multi"
    /\ mwpc["read"] = "wait"
    /\ mwpc' = [mwpc EXCEPT !["read"] = "exit"]
    /\ UNCHANGED <<filterState, upc, lastCall, ncalls, drvQueue, arrived,
                   packetEvent, networkInterfaces, mtx, filterAdapterList, marg,
                   adapterEvent, monpc, adapterMode, mchans, mheld, mctxDone,
                   injected, processed, notMulti>>

EventError ==
    \/ SimpleEventError
    \/ \E g \in Gens : ReadEventError(g)
    \/ MultiEventError

\* the three engines that wait on the packet event, started once, with a
\* packet event whose wait or reset may fail
InitEventError ==
    /\ engine \in {"queued", "simple", "multi"}
    /\ startBudget = 1
    /\ pktBudget = DispatchPkts
    /\ flagChoice = {PACKET_FLAG_ON_RECEIVE}
    /\ verdictChoice = {FilterActionPass}
    /\ rule = ZeroFilter
    /\ InitCommon

NextEventError ==
    \/ Arrive
    \/ QueuedNext
    \/ SimpleNext
    \/ NextMultiFlow
    \/ EventError

SpecEventError == InitEventError /\ [][NextEventError]_vars

\* the blocking engine started once, with more traffic than one read-packets
\* call returns
InitBurst ==
    /\ engine = "simple"
    /\ startBudget = 1
    /\ pktBudget = BurstPkts
    /\ flagChoice = DeviceFlagValues
    /\ verdictChoice = {FilterActionPass}
    /\ rule = ZeroFilter
    /\ InitCommon

NextBurst ==
    \/ Arrive
    \/ SimpleNext

SpecBurst == InitBurst /\ [][NextBurst]_vars

\* every engine, started once, with calls of Reconfigure in any state
InitReconfigure ==
    /\ engine \in {"queued", "simple", "fastio", "multi"}
    /\ startBudget = 1
    /\ pktBudget = DispatchPkts
    /\ flagChoice = {PACKET_FLAG_ON_RECEIVE}
    /\ verdictChoice = {FilterActionPass}
    /\ rule = ZeroFilter
    /\ idxChoice = {0}
    /\ handleChoice = {NoHandle}
    /\ sendChoice = {0}
    /\ hooks = {"in", "out"}
    /\ api = NoApi
    /\ InitState

NextReconfigure ==
    \/ Next
    \/ Reconfigure
    \/ NextMulti

SpecReconfigure == InitReconfigure /\ [][NextReconfigure]_vars

TypeOK ==
    /\ filterState \in 0..3
    /\ arrived \in 0..pktBudget

(***************************************************************************)
(* C1                                                                      *)
(***************************************************************************)
\* the dispatch table of the claim
TableQueue(flags, action) ==
    CASE action = FilterActionPass /\ flags = PACKET_FLAG_ON_SEND -> "adapter"
      [] action = FilterActionPass /\ flags = PACKET_FLAG_ON_RECEIVE -> "mstcp"
      [] action = FilterActionRedirect /\ flags = PACKET_FLAG_ON_SEND -> "mstcp"
      [] action = FilterActionRedirect /\ flags = PACKET_FLAG_ON_RECEIVE -> "adapter"
      [] OTHER -> "none"

C2_ClassifierOrder ==
    engine = "queued" =>
        /\ IsPrefixOf(inLog, Ids(WithoutFlag(readLog, PACKET_FLAG_ON_SEND)))
        /\ IsPrefixOf(outLog, Ids(WithFlag(readLog, PACKET_FLAG_ON_SEND)))

(***************************************************************************)
(* C3                                                                      *)
(***************************************************************************)
HeldBlocks == Cardinality({g \in Gens : held[g] # NoBlock})

\* blocks queued in the four channels plus blocks held by a stage worker
BlocksInCirculation ==
    Len(chans["read"]) + Len(chans["process"]) + Len(chans["mstcp"])
        + Len(chans["adapter"]) + HeldBlocks

\* C3: while the pipelined engine is Running the number of blocks in
\* circulation equals the pool size of 10
C3_PoolSize ==
    (engine = "queued" /\ filterState = FilterStateRunning)
        => BlocksInCirculation = MaximumBlockNum

(***************************************************************************)
(* C4                                                                      *)
(***************************************************************************)
\* blocks the read stage can still fill without the write-to-adapter stage
\* returning one: those in packetReadChan and those a reader holds unfilled
FillableBlocks ==
    Len(chans["read"]) + Cardinality({g \in Gens : wpc[g]["read"] \in {"wait", "rd"}})

\* C4: once the write-to-adapter stage has stopped taking blocks, the reads
\* that have filled a block since then and the reads the read stage can still
\* issue are together at most 10
C4_StalledReads == waStalled => stalledReads + FillableBlocks <= MaximumBlockNum

(***************************************************************************)
(* C5                                                                      *)
(***************************************************************************)
\* C5: a drain of a section to which the driver appended nothing after the
\* drain loaded the count (the last envelope possibly still being copied
\* under write-in-progress) leaves in the private buffer exactly the sequence
\* the driver wrote to the section, in order, each envelope once
C5_DrainExact ==
    (lastDrain.sec # 0 /\ lastDrain.quiet) =>
        /\ lastDrain.got = lastDrain.wrote
        /\ lastDrain.n = Len(lastDrain.wrote)

\* such a drain of two envelopes that began while the last was being copied
C5_Witness ==
    /\ lastDrain.sec # 0
    /\ lastDrain.quiet
    /\ GetWriteInProgressFlag(lastDrain.word) # 0
    /\ Len(lastDrain.wrote) = 2
    /\ lastDrain.got = lastDrain.wrote

(***************************************************************************)
(* C6                                                                      *)
(***************************************************************************)
\* this step is the return of a stop call
StopReturns ==
    /\ lastCall'.op = "stop"
    /\ upc' = "idle"
    /\ \/ upc = "idle" /\ ncalls' = ncalls + 1
       \/ upc = "stopping"

\* C6: when a stop call returns the state is Stopped, and a stop call that
\* returns next after another stop call reports not-running
C6_StopTwice ==
    [][StopReturns =>
          /\ filterState' = FilterStateStopped
          /\ lastCall.op = "stop" => lastCall'.err]_vars

(***************************************************************************)
(* C7                                                                      *)
(***************************************************************************)
\* a start that succeeded has set Starting and Running is still to be stored
StartSucceeding ==
    /\ filterState = FilterStateStarting
    /\ \/ engine = "queued" /\ upc = "starting"
       \/ engine \in {"simple", "fastio"} /\ spc = "spawned"

\* C7: the state does not remain in Starting after a successful start nor in
\* Stopping after a stop: in either state the engine itself, without any help
\* of the driver, can take a further step
C7_TransitionsComplete ==
    (StartSucceeding \/ filterState = FilterStateStopping) => ENABLED ProgramNext
(***************************************************************************)
(* C8                                                                      *)
(***************************************************************************)
\* the driver records of the rules of the mirror, in the mirror's order
MirrorRecords == [i \in 1..Len(Filters) |-> toStaticFilter(Filters[i])]

\* C8: after any sequence of add-front, add-back, insert-at, remove-at and
\* reset operations, accepted or rejected by the driver, the mirror lists
\* exactly the rules of the driver's table, in the same order
C8_MirrorInSync == MirrorRecords = drvTable

(***************************************************************************)
(* C9                                                                      *)
(***************************************************************************)
\* C9: an add-front, add-back, insert-at or remove-at request the driver
\* rejected reports failure and leaves the mirror as it was before the call
C9_RejectedLeavesMirror ==
    [][(tblCall'.op \in {"add-front", "add-back", "insert", "remove"}
          /\ tblCall'.asked /\ ~tblCall'.accepted)
        => (Filters' = Filters /\ ~tblCall'.ret)]_vars

\* the driver has rejected the removal of a rule of a mirror that holds two
C9_Witness ==
    /\ tblCall = [op |-> "remove", asked |-> TRUE, accepted |-> FALSE,
                  ret |-> FALSE]
    /\ Len(Filters) = 2
    /\ Len(drvTable) = 2

(***************************************************************************)
(* C10                                                                     *)
(***************************************************************************)
\* C10: a rule converted to the driver record and back has the same fields
\* set, with the same contents, and the fields that were not set are zero
C10_RoundTrip == back # NoRecord => back = rule

(***************************************************************************)
(* C11                                                                     *)
(***************************************************************************)
\* Close of the multi-adapter engine has begun and has not returned
MultiClosing == engine = "multi" /\ upc \in {"close.lock", "close.wait"}

\* C11: stop on a running multi-adapter engine runs to completion: while the
\* call is in progress the engine itself (the caller, the monitor or a stage
\* worker) can always take a further step, until Stopped is reported
C11_StopCompletes == MultiClosing => ENABLED MultiProgramNext

(***************************************************************************)
(* C12                                                                     *)
(***************************************************************************)
\* the mode and the event binding the filtered-name set asks for adapter a
WantedMode(a) ==
    IF a \in Range(filterAdapterList) THEN [flags |-> TunnelMode, bound |-> TRUE]
    ELSE ModeOff

C13_OverrideOrigin ==
    \A x \in injected :
        x.env.origin = IF x.env.ovr # NoHandle THEN x.env.ovr ELSE x.env.was

\* an envelope the driver delivered was injected on the write-to-adapter path
\* with the handle of another adapter than the one it came from
C13_Witness ==
    \E x \in injected :
        /\ x.to = "adapter"
        /\ x.env.id > 0
        /\ x.env.ovr # NoHandle
        /\ x.env.ovr # x.env.was
        /\ x.env.origin = x.env.ovr

(***************************************************************************)
(* C14                                                                     *)
(***************************************************************************)
\* the call that closed the adapter facade has just been made
CloseReturned ==
    \/ engine \in {"queued", "simple"} /\ upc = "idle" /\ lastCall.op = "close"
    \/ engine = "simple" /\ upc = "idle" /\ lastCall = [op |-> "stop", err |-> FALSE]
    \/ engine = "fastio" /\ upc = "stopping"
    \/ engine = "fastio" /\ upc = "idle" /\ lastCall = [op |-> "stop", err |-> FALSE]

\* the facade of a started engine is closed: only StartFilter sets the mode
\* again
FacadeClosed == engine \in {"queued", "simple", "fastio"} /\ mode = 0 /\ starts > 0

\* a worker obtains envelopes in this step: read-packets returns some, or the
\* fast-I/O drain takes some from a section
EnvelopesRead == readLog' # readLog \/ dtotal' > dtotal

\* C14: after the adapter facade has been closed the mode of the adapter is
\* 0, and as long as it stays closed no engine worker reads packets of the
\* adapter
C14_ClosedAdapterSilent ==
    /\ [](CloseReturned => mode = 0)
    /\ [][FacadeClosed => ~EnvelopesRead]_vars

(***************************************************************************)
(* C15                                                                     *)
(***************************************************************************)
\* C15: a single-adapter engine that was last started with an adapter index
\* outside the adapter list is Stopped, the start has returned, and it
\* returned an error
C15_OutOfRangeRejected ==
    (engine \in {"queued", "simple", "fastio"} /\ ~IndexInRange(adapter)) =>
        /\ upc # "panic"
        /\ filterState = FilterStateStopped
        /\ lastCall.op = "start" => lastCall.err

(***************************************************************************)
(* C16                                                                     *)
(***************************************************************************)
\* C16: a read-packets call (and its single-frame variant) returns true
\* exactly when it read at least one packet
C16_TrueWhenPacketsRead ==
    (engine = "api" /\ api.read.op # "none") =>
        (api.read.ret <=> api.read.got >= 1)

(***************************************************************************)
(* C19                                                                     *)
(***************************************************************************)
\* C19: a driver handle that has been constructed reports the driver as
\* loaded exactly when the device was opened and its event was created
C19_LoadedIffOpened ==
    (engine = "api" /\ api.made) => (IsDriverLoaded <=> DeviceOpened)

(***************************************************************************)
(* C17                                                                     *)
(***************************************************************************)
AllReturned == \A t \in Threads : thr[t].pc = "idle"

\* C17: when every call the threads made on the static filter table has
\* returned, the mirror lists exactly the driver's rules in the driver's order
C17_SerializedMirror ==
    (engine = "threads" /\ AllReturned) => MirrorRecords = drvTable

(***************************************************************************)
(* C18                                                                     *)
(***************************************************************************)
ReconfigureCalled == Reconfigure \/ MultiReconfigure

\* C18: a call of reconfigure returns an error exactly when the engine is
\* not Stopped, and a call that returns an error leaves the adapter list as
\* it was
C18_ReconfigureOnlyStopped ==
    [][ReconfigureCalled =>
          /\ lastCall'.op = "reconfigure"
          /\ lastCall'.err <=> (filterState # FilterStateStopped)
          /\ lastCall'.err => networkInterfaces' = networkInterfaces]_vars

\* a reconfigure was refused on a running engine whose adapter list an
\* earlier reconfigure had shortened
C18_Witness ==
    /\ lastCall = [op |-> "reconfigure", err |-> TRUE]
    /\ filterState = FilterStateRunning
    /\ Len(networkInterfaces) < NumAdapters

(***************************************************************************)
(* C20                                                                     *)
(***************************************************************************)
\* C20: after the process stage of the multi-adapter engine has handled a
\* block, the block's two write requests together hold exactly one pointer
\* for every envelope of the block whose verdict was pass or redirect
C20_OnePointerPerKept ==
    engine = "multi" =>
        /\ Range(processed.wa) \cup Range(processed.wm) = processed.kept
        /\ Len(processed.wa) + Len(processed.wm) = Cardinality(processed.kept)

(***************************************************************************)
(* C21                                                                     *)
(***************************************************************************)
\* StopFilter of the blocking engine has cancelled the context and waits for
\* the worker
SimpleStopWaiting == engine = "simple" /\ upc = "stopping"

\* C21: while stop of the blocking engine waits for the worker, the engine
\* can take a step without a further packet from the driver: a worker in the
\* packet-event wait has been woken
C21_StopWakesWorker == SimpleStopWaiting => ENABLED SimpleNext

(***************************************************************************)
(* C22                                                                     *)
(***************************************************************************)
\* StopFilter of the pipelined engine has returned for the last start
QueuedStopped ==
    /\ engine = "queued"
    /\ starts > 0
    /\ ctxDone[starts]
    /\ filterState = FilterStateStopped

\* C22: after stop has returned on the pipelined engine, as long as one of
\* the four stage workers of the stopped start has not exited, a stage worker
\* can take a step: none is left blocked in a channel receive or in the wait
\* for the packet event
C22_StagesExit ==
    QueuedStopped =>
        \/ \A st \in Stages : wpc[starts][st] = "exit"
        \/ ENABLED QueuedWorker

(***************************************************************************)
(* C23                                                                     *)
(***************************************************************************)
\* C23: when no call of the controlling thread on the multi-adapter engine
\* is in progress the engine mutex is free, so that an operation waiting for
\* it can go on
C23_MutexReleased == (engine = "multi" /\ upc = "idle") => ~mtx

(***************************************************************************)
(* C24                                                                     *)
(***************************************************************************)
\* the wait for write-in-progress is over, the count has been read again and
\* is larger than the count the drain loaded at first
GrownDuringWait ==
    /\ engine = "fastio"
    /\ spc = "store0"
    /\ GetNumberOfPackets(dword) < dn

\* C24: when the count of a section has grown from n to m while the drain
\* waited for write-in-progress to clear, the drain counts m envelopes for
\* the section and the private buffer holds, at consecutive positions, every
\* envelope the driver wrote to the section
C24_GrowthCopied ==
    GrownDuringWait =>
        /\ dn = Len(kseq[dsec])
        /\ \A i \in 1..dn : packetBuffer[dtotal + i - 1] = kseq[dsec][i]

(***************************************************************************)
(* C25                                                                     *)
(***************************************************************************)
\* the drain is inside section dsec: between the store of ReadInProgressFlag
\* as 1 and its store as 0
InSection ==
    /\ engine = "fastio"
    /\ spc \in {"load", "spin", "recheck", "store0", "rip0"}

\* C25: from before the first copy out of a section until after the packed
\* word has been stored as 0 read-in-progress is 1; the word is 0 when
\* read-in-progress is cleared, and when the drain leaves the section both
\* are 0
C25_ReadInProgressBrackets ==
    /\ [](InSection => sect[dsec].rip = 1)
    /\ []((engine = "fastio" /\ spc = "rip0") => sect[dsec].word = 0)
    /\ [][FastReadDone => (sect'[dsec].word = 0 /\ sect'[dsec].rip = 0)]_vars

\* the word of a section from which two envelopes were copied has been
\* stored as 0 and read-in-progress is still set
C25_Witness ==
    /\ engine = "fastio"
    /\ spc = "rip0"
    /\ dn = 2
    /\ sect[dsec].word = 0
    /\ sect[dsec].rip = 1

(***************************************************************************)
(* C26                                                                     *)
(***************************************************************************)
\* C26: the drain of the fast-I/O engine never takes a slice of a section's
\* envelope array, or of the private buffer, that is out of range
C26_DrainInRange == engine = "fastio" => spc # "panic"

(***************************************************************************)
(* C27                                                                     *)
(***************************************************************************)
\* the blocks of the multi-adapter engine, in a channel or held by a worker
MultiBlocks ==
    UNION {Range(mchans[st]) : st \in Stages}
        \cup (IF mheld = NoBlock THEN {} ELSE {mheld})

\* a write request of some block still points to the envelope
AwaitsSend(x) ==
    \E b \in MultiBlocks :
        LET request == IF x.to = "adapter" THEN b.writeAdapterRequest
                       ELSE b.writeMstcpRequest
        IN \E i \in 1..Len(request) : b.packetBuffer[request[i]] = x.env

\* C27: an envelope the driver delivered, that a send of the multi-adapter
\* engine submitted and the driver did not report as sent, is kept for a retry: it is still in a
\* write request, or a later send of it has succeeded
C27_UnsentRetried ==
    \A x \in injected :
        (x.env.id > 0 /\ ~x.sent) =>
            \/ AwaitsSend(x)
            \/ [x EXCEPT !.sent = TRUE] \in injected

(***************************************************************************)
(* C28                                                                     *)
(***************************************************************************)
\* the block packetRead has just read into: still held, or the last one of
\* packetProcessChan
BlockRead ==
    IF mheld' # NoBlock THEN mheld'
    ELSE mchans'["process"][Len(mchans'["process"])]

C29_EventErrorStops ==
    [][EventError =>
          /\ filterState' = FilterStateStopping
          /\ \/ engine = "simple" /\ spc' = "exit"
             \/ engine = "queued" /\ \E g \in Gens : wpc'[g]["read"] = "exit"
             \/ engine = "multi" /\ mwpc'["read"] = "exit"]_vars

(***************************************************************************)
(* C30                                                                     *)
(***************************************************************************)
\* an iteration of the inner loop of filterWorkingThread whose read-packets
\* call returns envelopes
ReadsBatch ==
    /\ SimpleReadPackets
    /\ filterState = FilterStateRunning
    /\ drvQueue # <<>>

\* C30: after a wake-up the worker of the blocking engine reads again after
\* every batch a read returned, having handed the whole batch to the
\* classifiers, and it goes from the reads back to waiting on the packet
\* event only when a read returned no envelope
C30_ReadsUntilEmpty ==
    /\ [][ReadsBatch =>
             LET batch == ReadPackets(drvQueue).packets
             IN /\ spc' = "rd"
                /\ drvQueue' = ReadPackets(drvQueue).rest
                /\ readLog' = readLog \o batch
                /\ IdSet(batch) \subseteq Range(inLog') \cup Range(outLog')]_vars
    /\ [][(engine = "simple" /\ spc = "rd" /\ spc' = "wait") =>
             /\ ReadPackets(drvQueue).ret
             /\ drvQueue = <<>>
             /\ UNCHANGED <<drvQueue, readLog>>]_vars

\* the worker is back at the wait on the packet event after the reads that
\* followed its wake-ups returned every envelope of the burst
C30_Witness ==
    /\ engine = "simple"
    /\ filterState = FilterStateRunning
    /\ spc = "wait"
    /\ ~packetEvent
    /\ arrived = BurstPkts
    /\ Len(readLog) = BurstPkts
    /\ Len(inLog) + Len(outLog) = BurstPkts
    /\ drvQueue = <<>>

(***************************************************************************)
(* C31                                                                     *)
(***************************************************************************)
\* the adapter-change event has fired while the engine is running: the
\* monitor is in onNetworkAdapterChange, at f.Lock()
MonitorPending == engine = "multi" /\ filterState = FilterStateRunning /\ monpc = "lock"

\* C31: when the adapter-change event fires while the multi-adapter engine is
\* running, the monitor reconciles: it is never left waiting for the mutex
\* with nothing that could release it, and the reconciliation clears the mode
\* and the event of every adapter that is gone, keeps the filtered adapters
\* that remain in tunnel mode and takes no envelope from the driver's queue
C31_MonitorReconciles ==
    /\ [](MonitorPending => ENABLED MonitorChange)
    /\ [][(MonitorChange /\ filterState = FilterStateRunning) =>
             /\ drvQueue' = drvQueue
             /\ \A a \in Adapters :
                   adapterMode'[a] =
                      IF a \in Range(networkInterfaces')
                         /\ a \in Range(filterAdapterList)
                      THEN [flags |-> TunnelMode, bound |-> TRUE]
                      ELSE ModeOff]_vars

(***************************************************************************)
(* C32                                                                     *)
(***************************************************************************)
\* a step writes f.networkInterfaces or f.filterAdapterList
ListsWritten ==
    /\ engine = "multi"
    /\ \/ networkInterfaces' # networkInterfaces
       \/ filterAdapterList' # filterAdapterList

\* the thread that takes the step was at its f.Lock() with the mutex free,
\* so that it takes the step holding the mutex
StepTakesMutex ==
    /\ ~mtx
    /\ \/ upc \in {"start.lock", "filter.lock", "unfilter.lock", "close.lock"}
          /\ upc' # upc
       \/ monpc = "lock" /\ monpc' = "wait"

\* C32: the adapter list and the filtered names of the multi-adapter engine
\* are written only by a thread that holds the engine mutex, be it an engine
\* operation or the adapter-change monitor
C32_ListsUnderMutex == [][ListsWritten => StepTakesMutex]_vars

(***************************************************************************)
(* C33                                                                     *)
(***************************************************************************)
\* a StartFilter call that passed the state test returns the error of
\* initFilter
StartFailsInInit ==
    /\ QueuedStartFilter \/ SimpleStartFilter \/ FastStartFilter
    /\ filterState = FilterStateStopped
    /\ upc' = "idle"
    /\ lastCall' = [op |-> "start", err |-> TRUE]

\* C33: when start fails during initialization the state is Stopped when the
\* call returns, so that a later start passes the state test
C33_FailedStartStopped ==
    [][StartFailsInInit => filterState' = FilterStateStopped]_vars

(***************************************************************************)
(* C34                                                                     *)
(***************************************************************************)
\* the blocking or the fast-I/O engine is asked to stop and the call that
\* returned last is a start that reported success
StopRightAfterStart ==
    /\ SimpleStopFilter \/ FastClose
    /\ lastCall = [op |-> "start", err |-> FALSE]

\* C34: a stop issued right after a start that returned success is accepted:
\* it passes the state test and goes on to stop the worker instead of
\* returning not-running
C34_StopAfterStartAccepted ==
    [][StopRightAfterStart =>
          /\ filterState' = FilterStateStopping
          /\ upc' = "stopping"]_vars

(***************************************************************************)
(* C35                                                                     *)
(***************************************************************************)
\* the pipelined engine runs again after a stop
Restarted == engine = "queued" /\ starts >= 2 /\ filterState = FilterStateRunning

\* C35: after the pipelined engine has been stopped and started again the
\* blocks in circulation are the 10 of the new start, and no worker of an
\* earlier start holds a block
C35_FreshPoolAfterRestart ==
    Restarted =>
        /\ BlocksInCirculation = MaximumBlockNum
        /\ \A g \in 1..(starts - 1) : held[g] = NoBlock

(***************************************************************************)
(* C36                                                                     *)
(***************************************************************************)
\* C36: once StopFilter has returned on the pipelined engine and until it is
\* started again, no packet is read, no envelope is handed to a classifier
\* and nothing is sent
C36_SilentAfterStop ==
    [][QueuedStopped =>
          UNCHANGED <<readLog, inLog, outLog, sentAdapter, sentMstcp>>]_vars

(***************************************************************************)
(* C37                                                                     *)
(***************************************************************************)
\* the rules of fs the predicate p does not hold for, in order
Remaining(fs, p) == SelectSeq(fs, LAMBDA r : ~Matches(p, r))

\* RemoveFiltersIf is called with the mirror equal to the driver's table and
\* the driver accepts every request of the call
RemovesInSync ==
    /\ RemoveFiltersIf
    /\ MirrorRecords = drvTable
    /\ tblCall'.accepted

\* C37: RemoveFiltersIf returns, and has removed from the mirror and from the
\* driver's table exactly the rules the predicate holds for, the others
\* staying in place and in order, the mirror still equal to the table
C37_RemovesExactlyMatching ==
    [][RemovesInSync =>
          /\ tblCall'.op = "remove-if"
          /\ Filters' = Remaining(Filters, tblCall'.pred)
          /\ drvTable' = [i \in 1..Len(Filters') |-> toStaticFilter(Filters'[i])]]_vars

(***************************************************************************)
(* C38                                                                     *)
(***************************************************************************)
\* the trailing default rule of a table: any adapter, no valid field
IsDefaultRule(sf) == sf.Adapter = 0 /\ sf.ValidFields = 0

\* C38: a table StoreTable has installed in the driver is the records of the
\* mirror's rules in order followed by one default rule, which its size counts
C38_TrailingDefaultRule ==
    [][(StoreTable /\ tblCall'.accepted) =>
          /\ Len(drvTable') = Len(Filters) + 1
          /\ SubSeq(drvTable', 1, Len(Filters)) = MirrorRecords
          /\ IsDefaultRule(drvTable'[Len(drvTable')])]_vars


(***************************************************************************)
(* C39                                                                     *)
(***************************************************************************)
PortsGiven == rule.SourcePort # NoPorts \/ rule.DestinationPort # NoPorts

\* C39: when a rule specifies a port range, the serialized record has the
\* transport layer marked valid, and its transport selector is TCPUDP if the
\* rule's protocol is TCP or UDP and ICMP otherwise
C39_SelectorFollowsProtocol ==
    (rec # NoRecord /\ PortsGiven) =>
        /\ HasBit(rec.ValidFields, TRANSPORT_LAYER_VALID)
        /\ rec.TransportFilter.Selector =
              IF rule.Protocol \in {IPPROTO_TCP, IPPROTO_UDP}
              THEN TCPUDP ELSE ICMP


(***************************************************************************)
(* C40                                                                     *)
(***************************************************************************)
GrewWhileLoading ==
    LoadTable /\ tblCall'.asked /\ Len(drvTable') > Len(drvTable)

\* C40: when the driver's table grew after its size was queried, so that the
\* read of the table fails with a buffer that is too small, LoadTable grows
\* its buffer and retries until the whole table has been read: it succeeds
\* and the mirror holds every record of the driver's table
C40_GrowsAndRetries ==
    [][GrewWhileLoading =>
          /\ tblCall'.ret
          /\ Filters' = [i \in 1..Len(drvTable') |->
                            fromStaticFilter(drvTable'[i])]]_vars

====
